---- MODULE Spec2Model ----
(***************************************************************************)
(* Model of the Tread project-planning dashboard                           *)
(* (construction_dashboard.py, demo_dashboard.py, run_demo.py).            *)
(*                                                                         *)
(* The worksheet is a sequence of raw rows (the header row is row 1 of the *)
(* sheet, data row i of the sequence is sheet row i+1).  A script run of a *)
(* session is one action: it starts with the cached load and then handles  *)
(* the widget event that triggered the run.                                *)
(***************************************************************************)
EXTENDS Integers, Sequences, FiniteSets, TLC

\* ------------------------------------------------------------------------
\* Bounds of the model
\* ------------------------------------------------------------------------
MaxRows == 2
MaxInitRows == 2
MaxNormRows == 3
MaxMonthRows == 3
MaxBudgetRows == 3
MaxBudgetsSet == 1
MaxCompleted == 1
MaxUpdates == 1
MaxStoreRows == 2
MaxProjectRows == 3

\* ------------------------------------------------------------------------
\* Program constants
\* ------------------------------------------------------------------------
TOTAL_PROJECT_BUDGET == 500000
StatusOptions == {"Planned", "In Progress", "Completed", "On Hold", "Cancelled"}

\* ------------------------------------------------------------------------
\* Calendar: datetime.date is a triple <<y, m, d>>; a pandas Timestamp of a
\* date-only value is its day ordinal (days since January 1st of FirstYear, 0-based).
\* ------------------------------------------------------------------------
Years == 2023 .. 2025
FirstYear == CHOOSE y \in Years : \A z \in Years : y <= z
NaT == -1
NaN == -999999999

IsLeap(y) == (y % 4 = 0 /\ y % 100 # 0) \/ y % 400 = 0

DaysInMonth(y, m) ==
  IF m = 2 THEN (IF IsLeap(y) THEN 29 ELSE 28)
  ELSE IF m \in {4, 6, 9, 11} THEN 30 ELSE 31

RECURSIVE DaysBeforeMonth(_, _)
DaysBeforeMonth(y, m) ==
  IF m <= 1 THEN 0 ELSE DaysBeforeMonth(y, m - 1) + DaysInMonth(y, m - 1)

RECURSIVE DaysBeforeYear(_)
DaysBeforeYear(y) ==
  IF y <= FirstYear THEN 0
  ELSE DaysBeforeYear(y - 1) + (IF IsLeap(y - 1) THEN 366 ELSE 365)

ValidDate(t) ==
  /\ t[1] \in Years
  /\ t[2] \in 1 .. 12
  /\ t[3] \in 1 .. DaysInMonth(t[1], t[2])

\* pd.Timestamp(date)
Timestamp(t) == DaysBeforeYear(t[1]) + DaysBeforeMonth(t[1], t[2]) + (t[3] - 1)

AllDates == {<<y, m, d>> : y \in Years, m \in 1 .. 12, d \in 1 .. 31}

\* Timestamp.date() / the y, m, d fields strftime prints
DateOf(ts) == CHOOSE t \in AllDates : ValidDate(t) /\ Timestamp(t) = ts

\* strftime('%Y-%m-%d'): the text cell holding the date's fields
strftime(t) == <<t[1], t[2], t[3]>>

\* ------------------------------------------------------------------------
\* Raw cells of the worksheet
\*   date cell : the text "y-m-d" as <<y, m, d>>; <<0, 0, 0>> is the empty
\*               cell, any triple that is no calendar date is unparsable
\*   cost cell : [isnum, v]; isnum = FALSE is empty or non-numeric text
\* ------------------------------------------------------------------------
Num(v) == [isnum |-> TRUE, v |-> v]
Text == [isnum |-> FALSE, v |-> 0]
EmptyDate == <<0, 0, 0>>

\* pd.to_datetime(col, errors='coerce')
to_datetime(cell) == IF ValidDate(cell) THEN Timestamp(cell) ELSE NaT

\* pd.to_numeric(col, errors='coerce')
to_numeric(cell) == IF cell.isnum THEN cell.v ELSE NaN

\* ------------------------------------------------------------------------
\* Raw rows and the normalized table (the DataFrame)
\* ------------------------------------------------------------------------
\* one worksheet row, cells in the column order of REQUIRED_COLUMNS
RawRow(name, start, end, cost, dur, status, project) ==
  [name |-> name, start |-> start, end |-> end, cost |-> cost, dur |-> dur,
   status |-> status, project |-> project]

\* variant: fillna only, the empty string is kept
FillStatus_FillnaOnly(s) == s

\* df['Status'].fillna('Planned') then .replace('', 'Planned'); get_all_records
\* yields '' for a blank cell
FillStatus(s) == IF s = "" THEN "Planned" ELSE s

\* pd.DataFrame(data) followed by the column coercions: row i of the sheet
\* data gets index label i-1, which dropna keeps (no reset_index)
CoerceRow(sh, i) ==
  [idx |-> i - 1,
   name |-> sh[i].name,
   start |-> to_datetime(sh[i].start),
   end |-> to_datetime(sh[i].end),
   cost |-> to_numeric(sh[i].cost),
   dur |-> to_numeric(sh[i].dur),
   status |-> FillStatus(sh[i].status),
   project |-> sh[i].project]

Coerced(sh) == [i \in 1 .. Len(sh) |-> CoerceRow(sh, i)]

\* variant: the duration is among the required columns
NotNa_WithDuration(r) == r.start # NaT /\ r.end # NaT /\ r.cost # NaN /\ r.dur # NaN

NotNa(r) == r.start # NaT /\ r.end # NaT /\ r.cost # NaN

\* df.dropna(subset=['Start Date', 'End Date', 'Estimated Cost'])
dropna(rows) == SelectSeq(rows, NotNa)

\* the value load_data_from_sheet returns: None, or a table
None == [ok |-> FALSE, rows |-> <<>>]
Table(rows) == [ok |-> TRUE, rows |-> rows]

\* ------------------------------------------------------------------------
\* Credentials and the connection to the worksheet
\* ------------------------------------------------------------------------
REQUIRED_COLUMNS ==
  <<"Job Name", "Start Date", "End Date", "Estimated Cost", "Estimated Duration",
    "Status", "Project">>

\* the four credential sources of a deployment:
\*   gac     GOOGLE_APPLICATION_CREDENTIALS: "unset", "missing" (set, no file
\*           at the path), "ok" (a key file), "bad" (a file that is no key)
\*   secrets st.secrets: "nofile" (no secrets file at all: any lookup raises),
\*           "absent" (a secrets file without the entry), "ok", "bad"
\*   file    ./credentials.json: "absent", "ok", "bad"
\*   json    GOOGLE_CREDENTIALS: "unset", "ok", "bad" (no JSON, or no key)
Environment(gac, secrets, file, json) ==
  [gac |-> gac, secrets |-> secrets, file |-> file, json |-> json]

\* the value load_google_credentials returns: the credentials of source n, or
\* None (error: the except clause ran and st.error showed the exception)
Credentials(n) == [found |-> TRUE, source |-> n, error |-> FALSE]
NoCredentials(error) == [found |-> FALSE, source |-> 0, error |-> error]

\* load_google_credentials: the first source that is there is used; an
\* exception of from_service_account_file / _info / json.loads, or of the
\* st.secrets lookup when there is no secrets file, ends in the except
\* clause, which returns None
load_google_credentials(env) ==
  IF env.gac \in {"ok", "bad"}
  THEN (IF env.gac = "ok" THEN Credentials(1) ELSE NoCredentials(TRUE))
  ELSE IF env.secrets = "nofile" THEN NoCredentials(TRUE)
  ELSE IF env.secrets \in {"ok", "bad"}
  THEN (IF env.secrets = "ok" THEN Credentials(2) ELSE NoCredentials(TRUE))
  ELSE IF env.file \in {"ok", "bad"}
  THEN (IF env.file = "ok" THEN Credentials(3) ELSE NoCredentials(TRUE))
  ELSE IF env.json \in {"ok", "bad"}
  THEN (IF env.json = "ok" THEN Credentials(4) ELSE NoCredentials(TRUE))
  ELSE NoCredentials(FALSE)

\* the ConstructionJobs worksheet: absent, or there with a header row
NoWorksheet == [exists |-> FALSE, cols |-> <<>>]
Worksheet(cols) == [exists |-> TRUE, cols |-> cols]

\* the outcome of a step of an adapter call: raised (an exception is
\* propagating), the value computed, and the worksheet after the step
Outcome(raised, value, hdr, rows) ==
  [raised |-> raised, value |-> value, header |-> hdr, rows |-> rows]

\* the header row read as a data row
HeaderAsRow ==
  [name |-> <<"Job Name">>, start |-> <<0, 0, 1>>, end |-> <<0, 0, 1>>,
   cost |-> [isnum |-> FALSE, v |-> 0], dur |-> [isnum |-> FALSE, v |-> 0],
   status |-> "Status", project |-> "Project"]

\* variant: the header row is appended on every connection
get_sheet_connection_AlwaysAppends(env, hdr, sh, io) ==
  IF ~load_google_credentials(env).found THEN Outcome(TRUE, FALSE, hdr, sh)
  ELSE IF ~io THEN Outcome(TRUE, FALSE, hdr, sh)
  ELSE IF hdr.exists THEN Outcome(FALSE, TRUE, hdr, Append(sh, HeaderAsRow))
  ELSE Outcome(FALSE, TRUE, Worksheet(REQUIRED_COLUMNS), sh)

\* variant: the worksheet is created anew on every connection
get_sheet_connection_AlwaysCreates(env, hdr, sh, io) ==
  IF ~load_google_credentials(env).found THEN Outcome(TRUE, FALSE, hdr, sh)
  ELSE IF ~io THEN Outcome(TRUE, FALSE, hdr, sh)
  ELSE Outcome(FALSE, TRUE, Worksheet(REQUIRED_COLUMNS), <<>>)

\* get_sheet_connection: raises without credentials (io = FALSE: authorize,
\* open_by_url or a worksheet call raises); a missing worksheet is added and
\* gets the header row
get_sheet_connection(env, hdr, sh, io) ==
  IF ~load_google_credentials(env).found THEN Outcome(TRUE, FALSE, hdr, sh)
  ELSE IF ~io THEN Outcome(TRUE, FALSE, hdr, sh)
  ELSE IF hdr.exists THEN Outcome(FALSE, TRUE, hdr, sh)
  ELSE Outcome(FALSE, TRUE, Worksheet(REQUIRED_COLUMNS), sh)

\* variant: nothing is caught
TryExcept_Uncaught(body, failure) == body

\* try: body / except Exception: return failure
TryExcept(body, failure) ==
  IF body.raised THEN [body EXCEPT !.raised = FALSE, !.value = failure] ELSE body

\* [col for col in REQUIRED_COLUMNS if col not in df.columns]
missing_columns(cols) ==
  LET columns == {cols[c] : c \in 1 .. Len(cols)}
  IN {REQUIRED_COLUMNS[i] : i \in 1 .. Len(REQUIRED_COLUMNS)} \ columns

\* load_data_from_sheet body: get_all_records() of a worksheet without data
\* rows is [], which returns the empty table before the columns are checked
load_data_from_sheet(env, hdr, sh, io) ==
  LET conn == get_sheet_connection(env, hdr, sh, io)
  IN TryExcept(
       IF conn.raised THEN conn
       ELSE IF conn.rows = <<>> THEN [conn EXCEPT !.value = Table(<<>>)]
       ELSE IF missing_columns(conn.header.cols) # {} THEN [conn EXCEPT !.value = None]
       ELSE [conn EXCEPT !.value = Table(dropna(Coerced(conn.rows)))],
       None)

\* ------------------------------------------------------------------------
\* Text helpers: a job name is a sequence of characters
\* ------------------------------------------------------------------------
RECURSIVE lstrip(_)
lstrip(str) == IF str # <<>> /\ Head(str) = " " THEN lstrip(Tail(str)) ELSE str

RECURSIVE rstrip(_)
rstrip(str) ==
  IF str # <<>> /\ str[Len(str)] = " "
  THEN rstrip(SubSeq(str, 1, Len(str) - 1)) ELSE str

\* str.strip()
strip(str) == rstrip(lstrip(str))

\* ------------------------------------------------------------------------
\* Validation
\* ------------------------------------------------------------------------
\* validate_job_data: the list of error messages, in the order of the checks
validate_job_data(job_name, start_date, end_date, cost, duration) ==
  (IF strip(job_name) = <<>> THEN <<"Job name is required">> ELSE <<>>)
  \o (IF Timestamp(start_date) >= Timestamp(end_date)
      THEN <<"End date must be after start date">> ELSE <<>>)
  \o (IF cost < 0 THEN <<"Estimated cost must be non-negative">> ELSE <<>>)
  \o (IF duration <= 0 THEN <<"Estimated duration must be positive">> ELSE <<>>)

\* the checks of the add-job form in main(): the message shown, "" when the
\* submission passes
add_job_check(job_name, start_date, end_date, cost) ==
  IF strip(job_name) # <<>> /\ cost > 0
  THEN (IF Timestamp(end_date) >= Timestamp(start_date) THEN <<>>
        ELSE <<"End date must be on or after start date!">>)
  ELSE <<"Please fill in all fields with valid values!">>

\* ------------------------------------------------------------------------
\* Record store adapter: effect of each call on the data rows
\* ------------------------------------------------------------------------
BlankRow == RawRow(<<>>, EmptyDate, EmptyDate, Text, Text, "", "")

\* the data rows with blank rows up to data row n (a cell written below the
\* last used row leaves the rows in between blank)
RECURSIVE PadTo(_, _)
PadTo(sh, n) == IF Len(sh) >= n THEN sh ELSE PadTo(Append(sh, BlankRow), n)

\* add_job_to_sheet: row_data holds six cells, the seventh (Project) stays blank
row_data(job) ==
  RawRow(job.name, strftime(job.start), strftime(job.end), Num(job.cost),
         Num(job.dur), job.status, "")

\* add_job_to_sheet: worksheet.append_row(row_data), True; False when the
\* connection or the append raises (io = FALSE)
add_job_to_sheet(env, hdr, sh, job, io) ==
  LET conn == get_sheet_connection(env, hdr, sh, io)
  IN TryExcept(
       IF conn.raised THEN conn
       ELSE [conn EXCEPT !.rows = Append(conn.rows, row_data(job))],
       FALSE)

\* variant: the row is written whole, with an empty Project cell
UpdatedCells_WholeRow(old, job, k) ==
  [name |-> IF k >= 1 THEN job.name ELSE old.name,
   start |-> IF k >= 2 THEN strftime(job.start) ELSE old.start,
   end |-> IF k >= 3 THEN strftime(job.end) ELSE old.end,
   cost |-> IF k >= 4 THEN Num(job.cost) ELSE old.cost,
   dur |-> IF k >= 5 THEN Num(job.dur) ELSE old.dur,
   status |-> IF k >= 6 THEN job.status ELSE old.status,
   project |-> IF k >= 6 THEN "" ELSE old.project]

\* update_job_in_sheet: actual_row = row_index + 2 is data row row_index + 1;
\* the six update_cell calls run in column order and the first k of them
\* succeed (k = 6: no exception, True returned)
UpdatedCells(old, job, k) ==
  [name |-> IF k >= 1 THEN job.name ELSE old.name,
   start |-> IF k >= 2 THEN strftime(job.start) ELSE old.start,
   end |-> IF k >= 3 THEN strftime(job.end) ELSE old.end,
   cost |-> IF k >= 4 THEN Num(job.cost) ELSE old.cost,
   dur |-> IF k >= 5 THEN Num(job.dur) ELSE old.dur,
   status |-> IF k >= 6 THEN job.status ELSE old.status,
   project |-> old.project]

ActualRow(row_index) == row_index + 2

\* the data rows after the first k update_cell calls on data row n
CellsWritten(sh, n, job, k) ==
  IF k = 0 THEN sh
  ELSE LET padded == PadTo(sh, n)
       IN [padded EXCEPT ![n] = UpdatedCells(padded[n], job, k)]

\* update_job_in_sheet: True after the sixth update_cell; False when the
\* connection raises or when update_cell k + 1 raises (k < 6)
update_job_in_sheet(env, hdr, sh, row_index, job, k) ==
  LET conn == get_sheet_connection(env, hdr, sh, k > 0)
      n == ActualRow(row_index) - 1
  IN TryExcept(
       IF conn.raised THEN conn
       ELSE Outcome(k < 6, k = 6, conn.header, CellsWritten(conn.rows, n, job, k)),
       FALSE)

\* worksheet.update_cell(actual_row, col, value) with the value of job_data
\* that update_job_in_sheet writes to column col, on data row n
update_cell(sh, n, col, job) ==
  LET padded == PadTo(sh, n)
      old == padded[n]
  IN [padded EXCEPT ![n] =
        [name |-> IF col = 1 THEN job.name ELSE old.name,
         start |-> IF col = 2 THEN strftime(job.start) ELSE old.start,
         end |-> IF col = 3 THEN strftime(job.end) ELSE old.end,
         cost |-> IF col = 4 THEN Num(job.cost) ELSE old.cost,
         dur |-> IF col = 5 THEN Num(job.dur) ELSE old.dur,
         status |-> IF col = 6 THEN job.status ELSE old.status,
         project |-> old.project]]

\* worksheet.delete_rows(actual_row)
delete_rows(sh, n) ==
  IF n > Len(sh) THEN sh
  ELSE SubSeq(sh, 1, n - 1) \o SubSeq(sh, n + 1, Len(sh))

\* delete_job_from_sheet: worksheet.delete_rows(row_index + 2), True; False
\* when the connection or the delete raises (io = FALSE)
delete_job_from_sheet(env, hdr, sh, row_index, io) ==
  LET conn == get_sheet_connection(env, hdr, sh, io)
  IN TryExcept(
       IF conn.raised THEN conn
       ELSE [conn EXCEPT !.rows = delete_rows(conn.rows, ActualRow(row_index) - 1)],
       FALSE)

\* variant: the last row of that name
OriginalIdx_Last(rows, name) ==
  LET k == CHOOSE i \in 1 .. Len(rows) :
             /\ rows[i].name = name
             /\ \A j \in (i + 1) .. Len(rows) : rows[j].name # name
  IN rows[k].idx

\* variant: the position in the table instead of the index label
OriginalIdx_Position(rows, name) ==
  LET k == CHOOSE i \in 1 .. Len(rows) :
             /\ rows[i].name = name
             /\ \A j \in 1 .. (i - 1) : rows[j].name # name
  IN k - 1

\* df.index[df['Job Name'] == job['Job Name']].tolist()[0]
OriginalIdx(rows, name) ==
  LET k == CHOOSE i \in 1 .. Len(rows) :
             /\ rows[i].name = name
             /\ \A j \in 1 .. (i - 1) : rows[j].name # name
  IN rows[k].idx

\* ------------------------------------------------------------------------
\* Analytics
\* ------------------------------------------------------------------------
RECURSIVE SumCost(_)
\* rows['Estimated Cost'].sum()
SumCost(rows) == IF rows = <<>> THEN 0 ELSE Head(rows).cost + SumCost(Tail(rows))

Max(a, b) == IF a >= b THEN a ELSE b
Min(a, b) == IF a <= b THEN a ELSE b

\* selected_month.replace(day=1)
month_start(selected_month) == <<selected_month[1], selected_month[2], 1>>

\* month_start + relativedelta(months=1)
next_month(d) == IF d[2] = 12 THEN <<d[1] + 1, 1, d[3]>> ELSE <<d[1], d[2] + 1, d[3]>>

\* variant: the first day of the next month, the day not subtracted
month_end_ts_NextMonthStart(selected_month) ==
  Timestamp(next_month(month_start(selected_month)))

\* pd.Timestamp(month_end), month_end = (month_start + one month) - one day
month_end_ts(selected_month) ==
  Timestamp(next_month(month_start(selected_month))) - 1

\* the overlap mask of create_gantt_chart and test_monthly_filtering
InMonth(r, selected_month) ==
  /\ r.start <= month_end_ts(selected_month)
  /\ r.end >= Timestamp(month_start(selected_month))

\* df[mask]
month_jobs(rows, selected_month) ==
  SelectSeq(rows, LAMBDA r : InMonth(r, selected_month))

\* the bar of one job: base = display_start, length = display_end - display_start
Bar(r, selected_month) ==
  LET display_start == Max(r.start, Timestamp(month_start(selected_month)))
      display_end == Min(r.end, month_end_ts(selected_month))
  IN [idx |-> r.idx, base |-> display_start, x |-> display_end - display_start]

create_gantt_chart(rows, selected_month) ==
  LET jobs == month_jobs(rows, selected_month)
  IN [kind |-> "gantt", month |-> selected_month, jobs |-> jobs,
      bars |-> [i \in 1 .. Len(jobs) |-> Bar(jobs[i], selected_month)]]

\* test_budget_calculations: df[df['Start Date'] <= month_end], cost summed
StartedBy(r, selected_month) == r.start <= month_end_ts(selected_month)

total_spend_to_date(rows, selected_month) ==
  SumCost(SelectSeq(rows, LAMBDA r : StartedBy(r, selected_month)))

\* df[df['Project'] == selected_project]
project_jobs(rows, selected_project) ==
  SelectSeq(rows, LAMBDA r : r.project = selected_project)

\* a float quotient a / b * 100 kept exact as the fraction num / den; den = 0
\* is the inf or nan of the unguarded division
Pct(a, b) == [num |-> a * 100, den |-> b]

\* pct >= x, for den >= 0 (inf >= x holds, -inf >= x and nan >= x do not)
PctGe(pct, x) == IF pct.den = 0 THEN pct.num > 0 ELSE pct.num >= x * pct.den

\* variant: the remaining budget clamped at zero
create_budget_analysis_Clamped(rows, selected_project, total_budget) ==
  LET project_spend == SumCost(project_jobs(rows, selected_project))
  IN [total_spend_to_date |-> project_spend,
      budget_used_pct |-> Pct(project_spend, total_budget),
      remaining_budget |-> Max(0, total_budget - project_spend)]

\* create_budget_analysis: the kpis dict (the completion counts take the
\* session's completed_jobs)
create_budget_analysis(rows, selected_project, total_budget) ==
  LET project_spend == SumCost(project_jobs(rows, selected_project))
  IN [total_spend_to_date |-> project_spend,
      budget_used_pct |-> Pct(project_spend, total_budget),
      remaining_budget |-> total_budget - project_spend]

\* variant: exclusive lower bounds
budget_color_Exclusive(budget_pct) ==
  IF budget_pct.num > 90 * budget_pct.den THEN "red"
  ELSE IF budget_pct.num > 70 * budget_pct.den THEN "orange"
  ELSE "green"

\* display_kpi_cards: the colour of the budget-used line
budget_color(budget_pct) ==
  IF PctGe(budget_pct, 90) THEN "red"
  ELSE IF PctGe(budget_pct, 70) THEN "orange"
  ELSE "green"

\* variant: a remaining-budget slice also when nothing remains
pie_values_ZeroSlice(rows, selected_project, total_budget) ==
  LET jobs == project_jobs(rows, selected_project)
      total_job_costs == SumCost(jobs)
      remaining_budget == Max(0, total_budget - total_job_costs)
      values == [i \in 1 .. Len(jobs) |-> jobs[i].cost]
  IN IF remaining_budget >= 0 THEN Append(values, remaining_budget) ELSE values

\* create_project_budget_pie_chart: the slice values; no pie for a project
\* without jobs
pie_values(rows, selected_project, total_budget) ==
  LET jobs == project_jobs(rows, selected_project)
      total_job_costs == SumCost(jobs)
      remaining_budget == Max(0, total_budget - total_job_costs)
      values == [i \in 1 .. Len(jobs) |-> jobs[i].cost]
  IN IF remaining_budget > 0 THEN Append(values, remaining_budget) ELSE values

\* f"{row['Job Name']}_{row['Start Date'].strftime('%Y%m%d')}"
job_key(r) == <<r.name, r.start>>

\* variant: a job counts as complete when its Status says so
job_completion_ByStatus(rows, selected_project, completed) ==
  LET jobs == project_jobs(rows, selected_project)
      total_jobs == Len(jobs)
      jobs_complete ==
        Cardinality({i \in 1 .. Len(jobs) : jobs[i].status = "Completed"})
  IN [total_jobs |-> total_jobs, jobs_complete |-> jobs_complete,
      jobs_in_progress |-> total_jobs - jobs_complete]

\* create_budget_analysis: the completion counts of the kpis dict
job_completion(rows, selected_project, completed) ==
  LET jobs == project_jobs(rows, selected_project)
      total_jobs == Len(jobs)
      jobs_complete ==
        Cardinality({i \in 1 .. Len(jobs) : job_key(jobs[i]) \in completed})
  IN [total_jobs |-> total_jobs, jobs_complete |-> jobs_complete,
      jobs_in_progress |-> total_jobs - jobs_complete]

\* the group keys of groupby('Start Date'), sorted ascending
RECURSIVE SortedKeys(_)
SortedKeys(S) ==
  IF S = {} THEN <<>>
  ELSE LET m == CHOOSE x \in S : \A y \in S : x <= y
       IN <<m>> \o SortedKeys(S \ {m})

\* the group keys in the order of their first row (groupby(sort=False))
RECURSIVE FirstSeenKeys(_)
FirstSeenKeys(jobs) ==
  IF jobs = <<>> THEN <<>>
  ELSE LET front == FirstSeenKeys(SubSeq(jobs, 1, Len(jobs) - 1))
           key == jobs[Len(jobs)].start
       IN IF \E i \in 1 .. Len(front) : front[i] = key THEN front
          ELSE Append(front, key)

\* Series.cumsum()
RECURSIVE cumsum(_)
cumsum(q) ==
  IF q = <<>> THEN <<>>
  ELSE LET front == cumsum(SubSeq(q, 1, Len(q) - 1))
       IN Append(front, (IF front = <<>> THEN 0 ELSE front[Len(front)]) + q[Len(q)])

\* the rows of daily_spend for the group keys in the given order
DailyRows(jobs, keys) ==
  LET cost == [k \in 1 .. Len(keys) |->
                 SumCost(SelectSeq(jobs, LAMBDA r : r.start = keys[k]))]
      cumulative == cumsum(cost)
  IN [k \in 1 .. Len(keys) |->
        [date |-> keys[k], cost |-> cost[k], cumulative |-> cumulative[k]]]

\* variant: the groups in the order of the rows
daily_spend_Unsorted(rows, selected_project) ==
  LET jobs == project_jobs(rows, selected_project)
  IN DailyRows(jobs, FirstSeenKeys(jobs))

\* create_budget_analysis: daily_spend, the cost per start date and its
\* running sum
daily_spend(rows, selected_project) ==
  LET jobs == project_jobs(rows, selected_project)
  IN DailyRows(jobs, SortedKeys({jobs[i].start : i \in 1 .. Len(jobs)}))

\* ------------------------------------------------------------------------
\* State
\* ------------------------------------------------------------------------
VARIABLES
  sheet,           \* data rows of the ConstructionJobs worksheet
  header,          \* the worksheet itself: absent, or its header row
  environ,         \* the credential sources of the deployment
  cache,           \* st.cache_data entry of load_data_from_sheet(sheet_url)
  df,              \* per session: the table its latest script run loaded
  editing,         \* per session: row labels idx with editing_{idx} set
  confirm_delete,  \* per session: row labels idx with confirm_delete_{idx} set
  project_budgets, \* per session: st.session_state.project_budgets
  completed_jobs,  \* per session: st.session_state.completed_jobs
  updating,        \* per session: the update_job_in_sheet call in progress
                   \* (n: the calls begun so far)
  conn,            \* the credentials of the latest adapter call; whether the
                   \* latest script run ended in an uncaught exception and
                   \* whether it created the worksheet
  lastOp,          \* what the latest script run did (form, adapter call, result)
  view,            \* the latest output of the analytics functions
  custom_projects, \* per session: st.session_state.custom_projects (demo)
  custom_jobs      \* per session: st.session_state.custom_jobs (demo)

vars == <<sheet, header, environ, cache, df, editing, confirm_delete,
          project_budgets, completed_jobs, updating, conn, lastOp, view,
          custom_projects, custom_jobs>>

Sessions == {"s1", "s2"}

\* the sessions that act in the single-user specification
Users == {"s1"}

\* the dict a form hands to the adapter
Job(name, start, end, cost, dur, status) ==
  [name |-> name, start |-> start, end |-> end, cost |-> cost, dur |-> dur,
   status |-> status]

NoJob == Job(<<>>, EmptyDate, EmptyDate, 0, 0, "")

\* job_data of the add-job form: the form's fields and 'Project'
job_data(job, selected_project) ==
  [name |-> job.name, start |-> job.start, end |-> job.end, cost |-> job.cost,
   dur |-> job.dur, status |-> job.status, project |-> selected_project]

Op(s, form, call, ok, row, idx, input, errors) ==
  [sess |-> s, form |-> form, call |-> call, ok |-> ok, row |-> row,
   idx |-> idx, input |-> input, errors |-> errors]

NoView == [kind |-> "none"]

\* st.cache_data.clear()
NoEntry == [valid |-> FALSE, value |-> None]

\* no update_job_in_sheet call of the session has run yet
Idle == [phase |-> "idle", row |-> -1, idx |-> -1, job |-> NoJob, k |-> 0, n |-> 0]

\* no adapter call yet
NoCall == [credentials |-> NoCredentials(FALSE), raised |-> FALSE, created |-> FALSE]

\* the cached call load_data_from_sheet(sheet_url) at the top of main():
\* the cached value on a hit (no connection is made), the function body on a
\* miss
LoadCall(io) ==
  IF cache.valid THEN Outcome(FALSE, cache.value, header, sheet)
  ELSE load_data_from_sheet(environ, header, sheet, io)

\* the table the run goes on with; an exception out of the load ends the run
Loaded(r) == IF r.raised THEN None ELSE r.value

\* the returned value (None included) is stored in the cache
CacheAfter(r) == IF r.raised THEN cache ELSE [valid |-> TRUE, value |-> r.value]

\* conn after a run whose only adapter call is the load r
ConnAfter(r) ==
  IF cache.valid THEN [conn EXCEPT !.raised = FALSE, !.created = FALSE]
  ELSE [credentials |-> load_google_credentials(environ), raised |-> r.raised,
        created |-> ~header.exists /\ r.header.exists]

\* conn after a run that made the adapter call with outcome w
ConnCall(w) ==
  [credentials |-> load_google_credentials(environ), raised |-> w.raised,
   created |-> ~header.exists /\ w.header.exists]

\* the table a fetch of the store as it is now returns when nothing raises
Fetched == load_data_from_sheet(environ, header, sheet, TRUE).value

\* the outcomes of the store read of a run: none on a cache hit
IO == IF cache.valid THEN {TRUE} ELSE BOOLEAN

\* main() goes on to the forms only with a non-empty table
Shown(t) == t.ok /\ t.rows # <<>>

Labels(t) == {t.rows[i].idx : i \in 1 .. Len(t.rows)}
RowAt(t, idx) == t.rows[CHOOSE i \in 1 .. Len(t.rows) : t.rows[i].idx = idx]

\* df['Project'].unique(): the options of the project selectbox
available_projects(t) == {t.rows[i].project : i \in 1 .. Len(t.rows)}

\* the edit form is built from the job's values: the status selectbox needs a
\* listed status, the number inputs a cost >= 0 and an integer duration >= 1
EditFormRenders(job) ==
  /\ job.status \in StatusOptions
  /\ job.cost >= 0
  /\ job.dur # NaN /\ job.dur >= 1

\* ------------------------------------------------------------------------
\* Inputs of the dashboard model
\* ------------------------------------------------------------------------
D1 == <<2024, 1, 15>>
D2 == <<2024, 2, 28>>

SeedRows ==
  { RawRow(<<"A">>, D1, D2, Num(1000), Num(5), "Planned", "P"),
    RawRow(<<"B">>, D1, D2, Num(2000), Num(5), "", "Q"),
    RawRow(<<"X">>, <<2024, 2, 30>>, D2, Num(10), Num(5), "Planned", "P") }

RECURSIVE SeqsUpTo(_, _)
SeqsUpTo(S, n) ==
  IF n = 0 THEN {<<>>}
  ELSE LET shorter == SeqsUpTo(S, n - 1)
       IN shorter \cup {Append(q, x) : q \in {r \in shorter : Len(r) = n - 1}, x \in S}

FormNames == {<<"C">>, <<" ">>}
FormDates == {<<D1, D2>>, <<D1, D1>>}
FormCosts == {1000}
FormDurations == {5}
FormStatuses == {"Completed"}

\* values of the budget number input
BudgetInputs == {250000}

FormJobs ==
  {Job(n, d[1], d[2], c, u, st) :
     n \in FormNames, d \in FormDates, c \in FormCosts, u \in FormDurations,
     st \in FormStatuses}

Stripped(job) == [job EXCEPT !.name = strip(job.name)]

\* a deployment whose credentials load: the local credentials.json
LocalFile == Environment("unset", "absent", "ok", "unset")

\* ------------------------------------------------------------------------
\* Initial state
\* ------------------------------------------------------------------------
\* a session that has not run yet, before any adapter call
InitSessions ==
  /\ cache = NoEntry
  /\ df = [s \in Sessions |-> None]
  /\ editing = [s \in Sessions |-> {}]
  /\ confirm_delete = [s \in Sessions |-> {}]
  /\ project_budgets = [s \in Sessions |-> {}]
  /\ completed_jobs = [s \in Sessions |-> {}]
  /\ updating = [s \in Sessions |-> Idle]
  /\ conn = NoCall
  /\ lastOp = Op("s1", "none", "none", TRUE, -1, -1, NoJob, <<>>)
  /\ view = NoView
  /\ custom_projects = [s \in Sessions |-> <<>>]
  /\ custom_jobs = [s \in Sessions |-> <<>>]

Init ==
  /\ sheet \in SeqsUpTo(SeedRows, MaxInitRows)
  /\ header = Worksheet(REQUIRED_COLUMNS)
  /\ environ = LocalFile
  /\ InitSessions

\* ------------------------------------------------------------------------
\* Script runs of construction_dashboard.main()
\* ------------------------------------------------------------------------
\* a run without a store-changing event (page open, rerun, project
\* selection, search or filter input)
View(s) ==
  \E io \in IO :
    \E r \in {LoadCall(io)} :
       /\ sheet' = r.rows
       /\ header' = r.header
       /\ cache' = CacheAfter(r)
       /\ conn' = ConnAfter(r)
       /\ df' = [df EXCEPT ![s] = Loaded(r)]
       /\ lastOp' = Op(s, "view", "none", TRUE, -1, -1, NoJob, <<>>)
       /\ UNCHANGED <<environ, editing, confirm_delete, project_budgets,
                      completed_jobs, updating, view,
                 custom_projects, custom_jobs>>

\* "Refresh from Sheets": clear, load with force_refresh=True (cached under
\* its own arguments), then the load at the top of main() misses and fetches
Refresh(s) ==
  \E io \in BOOLEAN :
    \E r \in {load_data_from_sheet(environ, header, sheet, io)} :
    LET t == IF r.raised THEN None ELSE r.value
    IN /\ sheet' = r.rows
       /\ header' = r.header
       /\ cache' = IF r.raised THEN NoEntry ELSE [valid |-> TRUE, value |-> t]
       /\ conn' = ConnCall(r)
       /\ df' = [df EXCEPT ![s] = t]
       /\ lastOp' = Op(s, "refresh", "none", TRUE, -1, -1, NoJob, <<>>)
       /\ UNCHANGED <<environ, editing, confirm_delete, project_budgets,
                      completed_jobs, updating, view,
                 custom_projects, custom_jobs>>

\* the ttl=300 of the cache entry runs out
Expire ==
  /\ cache.valid
  /\ cache' = NoEntry
  /\ UNCHANGED <<sheet, header, environ, df, editing, confirm_delete,
                 project_budgets, completed_jobs, updating, conn, lastOp, view,
                 custom_projects, custom_jobs>>

\* the "Set" button of the budget input: the budget of the selected project
SetBudget(s) ==
  \E io \in IO :
    \E r \in {LoadCall(io)} :
    LET t == Loaded(r)
    IN /\ Shown(t)
       /\ \E selected_project \in available_projects(t),
             budget_input \in BudgetInputs :
            /\ project_budgets' =
                 [project_budgets EXCEPT ![s] =
                    {b \in @ : b[1] # selected_project}
                      \cup {<<selected_project, budget_input>>}]
            /\ Cardinality(project_budgets'[s]) <= MaxBudgetsSet
       /\ sheet' = r.rows
       /\ header' = r.header
       /\ cache' = CacheAfter(r)
       /\ conn' = ConnAfter(r)
       /\ df' = [df EXCEPT ![s] = t]
       /\ lastOp' = Op(s, "set_budget", "none", TRUE, -1, -1, NoJob, <<>>)
       /\ UNCHANGED <<environ, editing, confirm_delete, completed_jobs,
                      updating, view,
                 custom_projects, custom_jobs>>

\* a completion checkbox of the job overview is toggled: the job's key
\* enters or leaves completed_jobs
ToggleComplete(s) ==
  \E io \in IO :
    \E r \in {LoadCall(io)} :
    LET t == Loaded(r)
    IN /\ Shown(t)
       /\ \E idx \in Labels(t) :
            LET key == job_key(RowAt(t, idx))
            IN /\ completed_jobs' =
                    [completed_jobs EXCEPT ![s] =
                       IF key \in @ THEN @ \ {key} ELSE @ \cup {key}]
               /\ Cardinality(completed_jobs'[s]) <= MaxCompleted
               /\ lastOp' = Op(s, "toggle", "none", TRUE, -1, idx, NoJob, <<>>)
       /\ sheet' = r.rows
       /\ header' = r.header
       /\ cache' = CacheAfter(r)
       /\ conn' = ConnAfter(r)
       /\ df' = [df EXCEPT ![s] = t]
       /\ UNCHANGED <<environ, editing, confirm_delete, project_budgets,
                      updating, view,
                 custom_projects, custom_jobs>>

\* the add-job form of main(), the submitted fields drawn from jobs
AddJobSubmitOf(s, jobs) ==
  \E io \in IO :
    \E r \in {LoadCall(io)} :
    LET t == Loaded(r)
    IN /\ Shown(t)
       /\ Len(sheet) < MaxRows
       /\ df' = [df EXCEPT ![s] = t]
       /\ UNCHANGED <<environ, editing, confirm_delete, project_budgets,
                      completed_jobs, updating, view,
                 custom_projects, custom_jobs>>
       /\ \E selected_project \in available_projects(t), wr \in BOOLEAN,
             job \in jobs :
            LET errs == add_job_check(job.name, job.start, job.end, job.cost)
                input == job_data(job, selected_project)
            IN IF errs # <<>>
               THEN /\ sheet' = r.rows
                    /\ header' = r.header
                    /\ cache' = CacheAfter(r)
                    /\ conn' = ConnAfter(r)
                    /\ lastOp' = Op(s, "add", "none", TRUE, -1, -1, input, errs)
               ELSE \E w \in {add_job_to_sheet(environ, r.header, r.rows,
                                                Stripped(input), wr)} :
                    /\ sheet' = w.rows
                    /\ header' = w.header
                    /\ conn' = ConnCall(w)
                    /\ cache' = IF w.value THEN NoEntry ELSE CacheAfter(r)
                    /\ lastOp' = Op(s, "add", "append", w.value, -1, -1, input, <<>>)

AddJobSubmit(s) == AddJobSubmitOf(s, FormJobs)

\* display_job_management: the Edit button of job idx
EditClick(s) ==
  \E io \in IO :
    \E r \in {LoadCall(io)} :
    LET t == Loaded(r)
    IN /\ Shown(t)
       /\ \E idx \in Labels(t) :
            /\ editing' = [editing EXCEPT ![s] = @ \cup {idx}]
            /\ lastOp' = Op(s, "edit_click", "none", TRUE, -1, idx, NoJob, <<>>)
       /\ sheet' = r.rows
       /\ header' = r.header
       /\ cache' = CacheAfter(r)
       /\ conn' = ConnAfter(r)
       /\ df' = [df EXCEPT ![s] = t]
       /\ UNCHANGED <<environ, confirm_delete, project_budgets, completed_jobs,
                      updating, view,
                 custom_projects, custom_jobs>>

\* display_job_management: "Update Job" of the edit form of job idx, the
\* submitted fields drawn from jobs; k is the number of update_cell calls
\* that succeed before an exception (6: none), drawn from ks
EditSubmitOf(s, jobs, ks) ==
  \E io \in IO :
    \E r \in {LoadCall(io)} :
    LET t == Loaded(r)
    IN /\ Shown(t)
       /\ \E idx \in Labels(t) \cap editing[s], k \in ks, new \in jobs :
            LET job == RowAt(t, idx)
                errs == validate_job_data(new.name, new.start, new.end,
                                          new.cost, new.dur)
                original_idx == OriginalIdx(t.rows, job.name)
            IN /\ EditFormRenders(job)
               /\ IF errs # <<>>
                  THEN /\ sheet' = r.rows
                       /\ header' = r.header
                       /\ cache' = CacheAfter(r)
                       /\ conn' = ConnAfter(r)
                       /\ editing' = editing
                       /\ lastOp' = Op(s, "edit", "none", TRUE, -1, idx, new, errs)
                  ELSE \E w \in {update_job_in_sheet(environ, r.header, r.rows,
                                                      original_idx, Stripped(new), k)} :
                       /\ sheet' = w.rows
                       /\ header' = w.header
                       /\ conn' = ConnCall(w)
                       /\ lastOp' = Op(s, "edit", "update", w.value, original_idx,
                                       idx, new, <<>>)
                       /\ IF w.value
                          THEN /\ editing' = [editing EXCEPT ![s] = @ \ {idx}]
                               /\ cache' = NoEntry
                          ELSE /\ editing' = editing
                               /\ cache' = CacheAfter(r)
       /\ df' = [df EXCEPT ![s] = t]
       /\ UNCHANGED <<environ, confirm_delete, project_budgets, completed_jobs,
                      updating, view,
                 custom_projects, custom_jobs>>

EditSubmit(s) == EditSubmitOf(s, FormJobs, 0 .. 6)

\* display_job_management: "Cancel" of the edit form of job idx
EditCancel(s) ==
  \E io \in IO :
    \E r \in {LoadCall(io)} :
    LET t == Loaded(r)
    IN /\ Shown(t)
       /\ \E idx \in Labels(t) \cap editing[s] :
            /\ EditFormRenders(RowAt(t, idx))
            /\ editing' = [editing EXCEPT ![s] = @ \ {idx}]
            /\ lastOp' = Op(s, "edit_cancel", "none", TRUE, -1, idx, NoJob, <<>>)
       /\ sheet' = r.rows
       /\ header' = r.header
       /\ cache' = CacheAfter(r)
       /\ conn' = ConnAfter(r)
       /\ df' = [df EXCEPT ![s] = t]
       /\ UNCHANGED <<environ, confirm_delete, project_budgets, completed_jobs,
                      updating, view,
                 custom_projects, custom_jobs>>

\* display_job_management: the Delete button of job idx
DeleteClick(s) ==
  \E io \in IO :
    \E r \in {LoadCall(io)} :
    LET t == Loaded(r)
    IN /\ Shown(t)
       /\ \E idx \in Labels(t) :
            /\ confirm_delete' = [confirm_delete EXCEPT ![s] = @ \cup {idx}]
            /\ lastOp' = Op(s, "delete_click", "none", TRUE, -1, idx, NoJob, <<>>)
       /\ sheet' = r.rows
       /\ header' = r.header
       /\ cache' = CacheAfter(r)
       /\ conn' = ConnAfter(r)
       /\ df' = [df EXCEPT ![s] = t]
       /\ UNCHANGED <<environ, editing, project_budgets, completed_jobs,
                      updating, view,
                 custom_projects, custom_jobs>>

\* display_job_management: "Yes, Delete" of the confirmation of job idx
DeleteConfirm(s) ==
  \E io \in IO :
    \E r \in {LoadCall(io)} :
    LET t == Loaded(r)
    IN /\ Shown(t)
       /\ \E idx \in Labels(t) \cap confirm_delete[s], wr \in BOOLEAN :
            LET job == RowAt(t, idx)
                original_idx == OriginalIdx(t.rows, job.name)
            IN \E w \in {delete_job_from_sheet(environ, r.header, r.rows,
                                                original_idx, wr)} :
               /\ lastOp' = Op(s, "delete", "delete", w.value, original_idx, idx,
                               NoJob, <<>>)
               /\ sheet' = w.rows
               /\ header' = w.header
               /\ conn' = ConnCall(w)
               /\ IF w.value
                  THEN /\ confirm_delete' = [confirm_delete EXCEPT ![s] = @ \ {idx}]
                       /\ cache' = NoEntry
                  ELSE /\ confirm_delete' = confirm_delete
                       /\ cache' = CacheAfter(r)
       /\ df' = [df EXCEPT ![s] = t]
       /\ UNCHANGED <<environ, editing, project_budgets, completed_jobs,
                      updating, view,
                 custom_projects, custom_jobs>>

\* display_job_management: "Cancel" of the confirmation of job idx
DeleteCancel(s) ==
  \E io \in IO :
    \E r \in {LoadCall(io)} :
    LET t == Loaded(r)
    IN /\ Shown(t)
       /\ \E idx \in Labels(t) \cap confirm_delete[s] :
            /\ confirm_delete' = [confirm_delete EXCEPT ![s] = @ \ {idx}]
            /\ lastOp' = Op(s, "delete_cancel", "none", TRUE, -1, idx, NoJob, <<>>)
       /\ sheet' = r.rows
       /\ header' = r.header
       /\ cache' = CacheAfter(r)
       /\ conn' = ConnAfter(r)
       /\ df' = [df EXCEPT ![s] = t]
       /\ UNCHANGED <<environ, editing, project_budgets, completed_jobs,
                      updating, view,
                 custom_projects, custom_jobs>>

Next ==
  \/ \E s \in Users : View(s)
  \/ \E s \in Users : Refresh(s)
  \/ Expire
  \/ \E s \in Users : AddJobSubmit(s)
  \/ \E s \in Users : EditClick(s)
  \/ \E s \in Users : EditSubmit(s)
  \/ \E s \in Users : EditCancel(s)
  \/ \E s \in Users : DeleteClick(s)
  \/ \E s \in Users : DeleteConfirm(s)
  \/ \E s \in Users : DeleteCancel(s)

Spec == Init /\ [][Next]_vars

\* ------------------------------------------------------------------------
\* The dashboard on a worksheet of two jobs, of distinct names or of the
\* same name
\* ------------------------------------------------------------------------
RowA == RawRow(<<"A">>, D1, D2, Num(1000), Num(5), "Planned", "P")
RowB == RawRow(<<"B">>, D1, D2, Num(2000), Num(5), "On Hold", "Q")
RowA2 == RawRow(<<"A">>, <<2024, 3, 1>>, <<2024, 3, 31>>, Num(3000), Num(7), "On Hold", "Q")

InitJobs ==
  /\ sheet \in {<<RowA, RowB>>, <<RowA, RowA2>>}
  /\ header = Worksheet(REQUIRED_COLUMNS)
  /\ environ = LocalFile
  /\ InitSessions

\* the update either fails at once or goes through
NextJobs ==
  \/ \E s \in Users : View(s)
  \/ Expire
  \/ \E s \in Users : AddJobSubmit(s)
  \/ \E s \in Users : EditClick(s)
  \/ \E s \in Users : EditSubmitOf(s, FormJobs, {0, 6})
  \/ \E s \in Users : EditCancel(s)
  \/ \E s \in Users : DeleteClick(s)
  \/ \E s \in Users : DeleteConfirm(s)
  \/ \E s \in Users : DeleteCancel(s)

SpecJobs == InitJobs /\ [][NextJobs]_vars

\* ------------------------------------------------------------------------
\* Two sessions on the same worksheet: update_job_in_sheet runs as its six
\* update_cell calls, which the calls of the other session can interleave
\* ------------------------------------------------------------------------
UpdateJobs ==
  { Job(<<"C">>, D1, D2, 1000, 5, "Completed"),
    Job(<<"D">>, <<2024, 3, 1>>, <<2024, 3, 31>>, 2000, 7, "In Progress"),
    Job(<<" ">>, D1, D2, 1000, 5, "Completed") }

\* "Update Job" up to the connection of update_job_in_sheet
UpdateBegin(s) ==
  /\ updating[s].phase # "run"
  /\ updating[s].n < MaxUpdates
  /\ \E io \in IO :
       LET r == LoadCall(io)
           t == Loaded(r)
       IN /\ Shown(t)
          /\ \E idx \in Labels(t) \cap editing[s], new \in UpdateJobs, up \in BOOLEAN :
               LET job == RowAt(t, idx)
                   errs == validate_job_data(new.name, new.start, new.end,
                                             new.cost, new.dur)
                   original_idx == OriginalIdx(t.rows, job.name)
                   c == TryExcept(get_sheet_connection(environ, r.header, r.rows, up),
                                  FALSE)
               IN /\ EditFormRenders(job)
                  /\ IF errs # <<>>
                     THEN /\ conn' = ConnAfter(r)
                          /\ updating' = updating
                          /\ lastOp' = Op(s, "edit", "none", TRUE, -1, idx, new, errs)
                     ELSE /\ conn' = ConnCall(c)
                          /\ IF c.value
                             THEN /\ updating' =
                                       [updating EXCEPT ![s] =
                                          [phase |-> "run", row |-> original_idx,
                                           idx |-> idx, job |-> new, k |-> 0,
                                           n |-> updating[s].n + 1]]
                                  /\ lastOp' = lastOp
                             ELSE /\ updating' =
                                       [updating EXCEPT ![s] =
                                          [phase |-> "failed", row |-> original_idx,
                                           idx |-> idx, job |-> new, k |-> 0,
                                           n |-> updating[s].n + 1]]
                                  /\ lastOp' = Op(s, "edit", "update", FALSE,
                                                  original_idx, idx, new, <<>>)
          /\ sheet' = r.rows
          /\ header' = r.header
          /\ cache' = CacheAfter(r)
          /\ df' = [df EXCEPT ![s] = t]
          /\ UNCHANGED <<environ, editing, confirm_delete, project_budgets,
                         completed_jobs, view,
                 custom_projects, custom_jobs>>

\* the next update_cell call of the running update: it raises (False is
\* returned), or it writes its cell; after the sixth cell True is returned
\* and the handler clears the editing flag and the cache
UpdateCell(s) ==
  /\ updating[s].phase = "run"
  /\ \E ok \in BOOLEAN :
       LET u == updating[s]
       IN IF ~ok
          THEN /\ updating' = [updating EXCEPT ![s].phase = "failed"]
               /\ lastOp' = Op(s, "edit", "update", FALSE, u.row, u.idx, u.job, <<>>)
               /\ UNCHANGED <<sheet, cache, editing>>
          ELSE /\ sheet' = update_cell(sheet, ActualRow(u.row) - 1, u.k + 1,
                                       Stripped(u.job))
               /\ IF u.k + 1 = 6
                  THEN /\ updating' = [updating EXCEPT ![s].phase = "done", ![s].k = 6]
                       /\ lastOp' = Op(s, "edit", "update", TRUE, u.row, u.idx,
                                       u.job, <<>>)
                       /\ editing' = [editing EXCEPT ![s] = @ \ {u.idx}]
                       /\ cache' = NoEntry
                  ELSE /\ updating' = [updating EXCEPT ![s].k = u.k + 1]
                       /\ UNCHANGED <<lastOp, editing, cache>>
  /\ UNCHANGED <<header, environ, df, confirm_delete, project_budgets,
                 completed_jobs, conn, view,
                 custom_projects, custom_jobs>>

InitConcurrent ==
  /\ sheet = <<RowA>>
  /\ header = Worksheet(REQUIRED_COLUMNS)
  /\ environ = LocalFile
  /\ InitSessions

\* a session starts no other run while its update is running
NextConcurrent ==
  \/ \E s \in Sessions : updating[s].phase # "run" /\ View(s)
  \/ \E s \in Sessions : updating[s].phase # "run" /\ EditClick(s)
  \/ \E s \in Sessions : UpdateBegin(s)
  \/ \E s \in Sessions : UpdateCell(s)

SpecConcurrent == InitConcurrent /\ [][NextConcurrent]_vars

\* ------------------------------------------------------------------------
\* The normalizer on its own: fetches of a worksheet that holds arbitrary
\* raw rows
\* ------------------------------------------------------------------------
BadDate == <<2024, 2, 30>>

NormRows ==
  {RawRow(<<"A">>, st, en, c, Num(5), status, "P") :
     st \in {D1, BadDate}, en \in {D2, EmptyDate}, c \in {Num(100), Text},
     status \in {"", "On Hold"}}
  \cup {RawRow(<<"A">>, D1, D2, Num(100), Text, "Completed", "P")}

InitNormalize ==
  /\ sheet \in SeqsUpTo(NormRows, MaxNormRows)
  /\ header = Worksheet(REQUIRED_COLUMNS)
  /\ environ = LocalFile
  /\ InitSessions

NextNormalize ==
  \/ \E s \in Users : View(s)
  \/ \E s \in Users : Refresh(s)
  \/ Expire

SpecNormalize == InitNormalize /\ [][NextNormalize]_vars

\* ------------------------------------------------------------------------
\* The dashboard while the credential sources of the deployment change
\* ------------------------------------------------------------------------
NoSource == Environment("unset", "absent", "absent", "unset")
BadFile == Environment("unset", "absent", "bad", "unset")

FailureEnvironments == {LocalFile, NoSource, BadFile}

\* between two script runs the credentials file is removed, replaced or
\* restored
ChangeEnvironment ==
  /\ environ' \in FailureEnvironments \ {environ}
  /\ UNCHANGED <<sheet, header, cache, df, editing, confirm_delete,
                 project_budgets, completed_jobs, updating, conn, lastOp, view,
                 custom_projects, custom_jobs>>

InitFailure ==
  /\ sheet = <<RowA>>
  /\ header = Worksheet(REQUIRED_COLUMNS)
  /\ environ = LocalFile
  /\ InitSessions

NextFailure ==
  \/ \E s \in Users : View(s)
  \/ \E s \in Users : Refresh(s)
  \/ Expire
  \/ \E s \in Users : AddJobSubmit(s)
  \/ \E s \in Users : EditClick(s)
  \/ \E s \in Users : EditSubmitOf(s, FormJobs, {0, 3, 6})
  \/ \E s \in Users : DeleteClick(s)
  \/ \E s \in Users : DeleteConfirm(s)
  \/ ChangeEnvironment

SpecFailure == InitFailure /\ [][NextFailure]_vars

\* ------------------------------------------------------------------------
\* The two job forms with every kind of input their widgets allow
\* ------------------------------------------------------------------------
\* the cost inputs have min_value = 0 and the duration inputs min_value = 1:
\* a submitted cost is >= 0 and a submitted duration >= 1
WideDates == {<<D1, D2>>, <<D1, D1>>, <<D2, D1>>}
WideCosts == {0, 1000}

WideJobs ==
  {Job(n, d[1], d[2], c, u, st) :
     n \in FormNames, d \in WideDates, c \in WideCosts, u \in FormDurations,
     st \in FormStatuses}

NextForms ==
  \/ \E s \in Users : View(s)
  \/ Expire
  \/ \E s \in Users : AddJobSubmitOf(s, WideJobs)
  \/ \E s \in Users : EditClick(s)
  \/ \E s \in Users : EditSubmitOf(s, WideJobs, {0, 6})

SpecForms == InitFailure /\ [][NextForms]_vars

\* ------------------------------------------------------------------------
\* Every event of the dashboard, on a new spreadsheet or a worksheet of one job
\* ------------------------------------------------------------------------
InitFrame ==
  /\ \/ header = NoWorksheet /\ sheet = <<>>
     \/ header = Worksheet(REQUIRED_COLUMNS) /\ sheet = <<RowA>>
  /\ environ = LocalFile
  /\ InitSessions

\* a submission that passes the checks of both forms and one that fails them
FrameJobs == {j \in FormJobs : j.start # j.end}

NextFrame ==
  \/ \E s \in Users : View(s)
  \/ \E s \in Users : Refresh(s)
  \/ Expire
  \/ \E s \in Users : SetBudget(s)
  \/ \E s \in Users : ToggleComplete(s)
  \/ \E s \in Users : AddJobSubmitOf(s, FrameJobs)
  \/ \E s \in Users : EditClick(s)
  \/ \E s \in Users : EditSubmitOf(s, FrameJobs, {0, 6})
  \/ \E s \in Users : EditCancel(s)
  \/ \E s \in Users : DeleteClick(s)
  \/ \E s \in Users : DeleteConfirm(s)
  \/ \E s \in Users : DeleteCancel(s)

SpecFrame == InitFrame /\ [][NextFrame]_vars

\* ------------------------------------------------------------------------
\* Two sessions of one server process: st.cache_data is shared by them
\* ------------------------------------------------------------------------
NextShared ==
  \/ \E s \in Sessions : View(s)
  \/ \E s \in Sessions : Refresh(s)
  \/ Expire
  \/ \E s \in Sessions : EditClick(s)
  \/ \E s \in Sessions : EditSubmitOf(s, FrameJobs, {3, 6})

SpecShared == InitFailure /\ [][NextShared]_vars

\* ------------------------------------------------------------------------
\* Fetches of a spreadsheet whose worksheet is absent or has any header row
\* ------------------------------------------------------------------------
StoreHeaders ==
  { NoWorksheet,
    Worksheet(REQUIRED_COLUMNS),
    Worksheet(SubSeq(REQUIRED_COLUMNS, 1, 6)),
    Worksheet(Tail(REQUIRED_COLUMNS)),
    Worksheet(Append(REQUIRED_COLUMNS, "Notes")) }

StoreRows ==
  { RowA, RowB, RawRow(<<"X">>, BadDate, D2, Num(10), Num(5), "Planned", "P") }

InitStore ==
  /\ header \in StoreHeaders
  /\ sheet \in (IF header.exists THEN SeqsUpTo(StoreRows, MaxStoreRows) ELSE {<<>>})
  /\ environ = LocalFile
  /\ InitSessions

SpecStore == InitStore /\ [][NextNormalize]_vars

\* ------------------------------------------------------------------------
\* Fetches under every combination of the four credential sources
\* ------------------------------------------------------------------------
Environments ==
  {Environment(gac, secrets, file, json) :
     gac \in {"unset", "missing", "ok", "bad"},
     secrets \in {"nofile", "absent", "ok", "bad"},
     file \in {"absent", "ok", "bad"},
     json \in {"unset", "ok", "bad"}}

InitCredentials ==
  /\ environ \in Environments
  /\ header = Worksheet(REQUIRED_COLUMNS)
  /\ sheet \in {<<>>, <<RowA>>}
  /\ InitSessions

SpecCredentials == InitCredentials /\ [][NextNormalize]_vars

\* ------------------------------------------------------------------------
\* The analytics functions applied to a loaded table
\* ------------------------------------------------------------------------
\* the state after a first successful run of session s1 on the worksheet
InitLoaded(sheets) ==
  /\ sheet \in sheets
  /\ header = Worksheet(REQUIRED_COLUMNS)
  /\ environ = LocalFile
  /\ cache = [valid |-> TRUE, value |-> Fetched]
  /\ df = [s \in Sessions |-> IF s = "s1" THEN Fetched ELSE None]
  /\ editing = [s \in Sessions |-> {}]
  /\ confirm_delete = [s \in Sessions |-> {}]
  /\ project_budgets = [s \in Sessions |-> {}]
  /\ completed_jobs = [s \in Sessions |-> {}]
  /\ updating = [s \in Sessions |-> Idle]
  /\ conn = [credentials |-> load_google_credentials(environ), raised |-> FALSE,
             created |-> FALSE]
  /\ lastOp = Op("s1", "view", "none", TRUE, -1, -1, NoJob, <<>>)
  /\ view = NoView
  /\ custom_projects = [s \in Sessions |-> <<>>]
  /\ custom_jobs = [s \in Sessions |-> <<>>]

Months == {<<2023, 12>>, <<2024, 1>>, <<2024, 2>>, <<2024, 3>>, <<2024, 4>>}

\* a selected_month: any day of the month
SelectedMonths == {<<m[1], m[2], d>> : m \in Months, d \in {1, 15}}

MonthSpans ==
  { <<D1, D2>>,
    <<<<2023, 12, 31>>, <<2024, 1, 1>>>>,
    <<<<2024, 1, 31>>, <<2024, 1, 31>>>>,
    <<<<2024, 2, 1>>, <<2024, 2, 29>>>>,
    <<<<2024, 2, 29>>, <<2024, 3, 1>>>>,
    <<<<2024, 3, 31>>, <<2024, 4, 30>>>>,
    <<<<2024, 3, 1>>, <<2024, 1, 31>>>>,
    <<<<2024, 2, 20>>, <<2024, 2, 10>>>> }

MonthRows ==
  {RawRow(<<"A">>, sp[1], sp[2], Num(100), Num(5), "Planned", "P") : sp \in MonthSpans}
  \cup {RawRow(<<"B">>, <<2024, 2, 1>>, <<2024, 2, 29>>, Num(c), Num(5), "Planned", "P") :
          c \in {0 - 200, 50000}}

InitMonth == InitLoaded(SeqsUpTo(MonthRows, MaxMonthRows))

GanttChart(s) ==
  \E selected_month \in SelectedMonths :
    /\ df[s].ok
    /\ UNCHANGED <<custom_projects, custom_jobs>>
    /\ view' = create_gantt_chart(df[s].rows, selected_month)
    /\ UNCHANGED <<sheet, header, environ, cache, df, editing, confirm_delete,
                 project_budgets, completed_jobs, updating, conn, lastOp>>

SpendToDate(s) ==
  \E selected_month \in SelectedMonths :
    /\ df[s].ok
    /\ UNCHANGED <<custom_projects, custom_jobs>>
    /\ view' = [kind |-> "spend", month |-> selected_month,
                total |-> total_spend_to_date(df[s].rows, selected_month)]
    /\ UNCHANGED <<sheet, header, environ, cache, df, editing, confirm_delete,
                 project_budgets, completed_jobs, updating, conn, lastOp>>

NextMonth ==
  \/ \E s \in Users : GanttChart(s)
  \/ \E s \in Users : SpendToDate(s)

SpecMonth == InitMonth /\ [][NextMonth]_vars

Budgets == {1000, 125000, TOTAL_PROJECT_BUDGET}
Projects == {"P", "Q"}

BudgetRows ==
  {RawRow(<<"A">>, D1, D2, Num(c), Num(5), "Planned", "P") :
     c \in {50000, 75000, 699, 899, 900, 0 - 200}}
  \cup {RawRow(<<"B">>, D1, D2, Num(c), Num(5), "Planned", "Q") : c \in {50000, 900}}

InitBudget == InitLoaded(SeqsUpTo(BudgetRows, MaxBudgetRows))

\* main(): create_budget_analysis, then display_kpi_cards on its kpis
BudgetAnalysis(s) ==
  \E selected_project \in Projects, budget \in Budgets :
    LET kpis == create_budget_analysis(df[s].rows, selected_project, budget)
    IN /\ df[s].ok
       /\ UNCHANGED <<custom_projects, custom_jobs>>
       /\ view' = [kind |-> "kpis", project |-> selected_project,
                   budget |-> budget, kpis |-> kpis,
                   color |-> budget_color(kpis.budget_used_pct)]
       /\ UNCHANGED <<sheet, header, environ, cache, df, editing, confirm_delete,
                 project_budgets, completed_jobs, updating, conn, lastOp>>

\* main(): create_project_budget_pie_chart
PieChart(s) ==
  \E selected_project \in Projects, budget \in Budgets :
    /\ df[s].ok
    /\ UNCHANGED <<custom_projects, custom_jobs>>
    /\ view' = [kind |-> "pie", project |-> selected_project, budget |-> budget,
                empty |-> project_jobs(df[s].rows, selected_project) = <<>>,
                values |-> IF project_jobs(df[s].rows, selected_project) = <<>>
                           THEN <<>>
                           ELSE pie_values(df[s].rows, selected_project, budget)]
    /\ UNCHANGED <<sheet, header, environ, cache, df, editing, confirm_delete,
                 project_budgets, completed_jobs, updating, conn, lastOp>>

NextBudget ==
  \/ \E s \in Users : BudgetAnalysis(s)
  \/ \E s \in Users : PieChart(s)

SpecBudget == InitBudget /\ [][NextBudget]_vars

\* ------------------------------------------------------------------------
\* The project page: project selection, budget, completion checkboxes
\* ------------------------------------------------------------------------
ProjectRows ==
  { RowA, RowB, RowA2,
    RawRow(<<"A">>, D1, D2, Num(2000), Num(5), "Completed", "Q"),
    RawRow(<<"B">>, D1, D2, Num(2000), Num(5), "Completed", "P") }

InitProject == InitLoaded(SeqsUpTo(ProjectRows, MaxProjectRows))

\* values of the budget number input (min_value = 0)
PageBudgets == {125000, 250000}

\* variant: one budget for all projects
BudgetOf_AnyProject(budgets, selected_project) ==
  IF budgets # {} THEN (CHOOSE b \in budgets : TRUE)[2] ELSE TOTAL_PROJECT_BUDGET

\* st.session_state.project_budgets.get(selected_project, TOTAL_PROJECT_BUDGET)
BudgetOf(budgets, selected_project) ==
  IF \E b \in budgets : b[1] = selected_project
  THEN (CHOOSE b \in budgets : b[1] = selected_project)[2]
  ELSE TOTAL_PROJECT_BUDGET

\* the checkbox widgets of the job overview have the key complete_{job_key}:
\* the page is drawn only when the keys of the project's rows differ
Renders(rows, selected_project) ==
  LET jobs == project_jobs(rows, selected_project)
  IN \A i, j \in 1 .. Len(jobs) : job_key(jobs[i]) = job_key(jobs[j]) => i = j

\* what main() shows below the job overview
Page(rows, selected_project, budget, completed) ==
  [kind |-> "page", project |-> selected_project, budget |-> budget,
   kpis |-> create_budget_analysis(rows, selected_project, budget),
   counts |-> job_completion(rows, selected_project, completed),
   daily |-> daily_spend(rows, selected_project),
   pie |-> pie_values(rows, selected_project, budget)]

\* a run of main() with a project selected in the sidebar
SelectProject(s) ==
  /\ df[s].ok
  /\ \E selected_project \in available_projects(df[s]) :
       /\ Renders(df[s].rows, selected_project)
       /\ UNCHANGED <<custom_projects, custom_jobs>>
       /\ view' = Page(df[s].rows, selected_project,
                       BudgetOf(project_budgets[s], selected_project),
                       completed_jobs[s])
  /\ lastOp' = Op(s, "view", "none", TRUE, -1, -1, NoJob, <<>>)
  /\ UNCHANGED <<sheet, header, environ, cache, df, editing, confirm_delete,
                 project_budgets, completed_jobs, updating, conn>>

\* a run of main() in which "Set" was clicked
SetProjectBudget(s) ==
  /\ df[s].ok
  /\ \E selected_project \in available_projects(df[s]),
        budget_input \in PageBudgets :
       /\ Renders(df[s].rows, selected_project)
       /\ project_budgets' =
            [project_budgets EXCEPT ![s] =
               {b \in @ : b[1] # selected_project}
                 \cup {<<selected_project, budget_input>>}]
       /\ UNCHANGED <<custom_projects, custom_jobs>>
       /\ view' = Page(df[s].rows, selected_project,
                       BudgetOf(project_budgets'[s], selected_project),
                       completed_jobs[s])
       /\ lastOp' = Op(s, "set_budget", "none", TRUE, -1, -1,
                       [project |-> selected_project, budget |-> budget_input],
                       <<>>)
  /\ UNCHANGED <<sheet, header, environ, cache, df, editing, confirm_delete,
                 completed_jobs, updating, conn>>

\* a run of main() after the checkbox of one job of the selected project was
\* ticked or unticked: is_complete of that row is the new state of the
\* widget, and the loop adds or discards its job_key
ToggleCheckbox(s) ==
  /\ df[s].ok
  /\ \E selected_project \in available_projects(df[s]) :
       LET jobs == project_jobs(df[s].rows, selected_project)
       IN /\ Renders(df[s].rows, selected_project)
          /\ \E i \in 1 .. Len(jobs) :
               LET key == job_key(jobs[i])
               IN /\ completed_jobs' =
                       [completed_jobs EXCEPT ![s] =
                          IF key \in @ THEN @ \ {key} ELSE @ \cup {key}]
                  /\ lastOp' = Op(s, "toggle", "none", TRUE, -1, jobs[i].idx,
                                  NoJob, <<>>)
          /\ UNCHANGED <<custom_projects, custom_jobs>>
          /\ view' = Page(df[s].rows, selected_project,
                          BudgetOf(project_budgets[s], selected_project),
                          completed_jobs'[s])
  /\ UNCHANGED <<sheet, header, environ, cache, df, editing, confirm_delete,
                 project_budgets, updating, conn>>

NextProject ==
  \/ \E s \in Users : SelectProject(s)
  \/ \E s \in Users : SetProjectBudget(s)
  \/ \E s \in Users : ToggleCheckbox(s)

SpecProject == InitProject /\ [][NextProject]_vars

\* ------------------------------------------------------------------------
\* The demo dashboard (demo_dashboard.py): the sample table plus the projects
\* and jobs a session adds; a project name is a sequence of characters
\* ------------------------------------------------------------------------
MaxCustomProjects == 2
MaxCustomJobs == 2

\* ord(c) for the characters of the names used
ord(c) == CASE c = " " -> 32 [] c = "A" -> 65 [] c = "B" -> 66 [] c = "C" -> 67

\* a <= b on str: by code point, a proper prefix first
RECURSIVE StrLeq(_, _)
StrLeq(a, b) ==
  IF a = <<>> THEN TRUE
  ELSE IF b = <<>> THEN FALSE
  ELSE IF ord(Head(a)) # ord(Head(b)) THEN ord(Head(a)) < ord(Head(b))
  ELSE StrLeq(Tail(a), Tail(b))

\* sorted(list): every element of the list, equal ones included
RECURSIVE sorted(_)
sorted(q) ==
  IF q = <<>> THEN <<>>
  ELSE LET i == CHOOSE i \in 1 .. Len(q) : \A j \in 1 .. Len(q) : StrLeq(q[i], q[j])
       IN <<q[i]>> \o sorted(SubSeq(q, 1, i - 1) \o SubSeq(q, i + 1, Len(q)))

\* Series.unique().tolist(): the distinct values in order of first occurrence
RECURSIVE unique(_)
unique(q) ==
  IF q = <<>> THEN <<>>
  ELSE LET u == unique(SubSeq(q, 1, Len(q) - 1))
       IN IF \E i \in 1 .. Len(u) : u[i] = q[Len(q)] THEN u ELSE Append(u, q[Len(q)])

DemoJob(project, name, start, end, cost) ==
  [project |-> project, name |-> name, start |-> start, end |-> end, cost |-> cost]

\* load_demo_data(): the rows of sample_data.csv
DemoSamples ==
  { <<>>,
    <<DemoJob(<<"B">>, <<"A">>, D1, D2, 1000)>>,
    <<DemoJob(<<"B">>, <<"A">>, D1, D2, 1000), DemoJob(<<"A">>, <<"B">>, D1, D2, 2000),
      DemoJob(<<"B">>, <<"C">>, D1, D2, 3000)>> }

\* pd.concat([df, custom_df], ignore_index=True)
demo_df(sample, jobs) == sample \o jobs

\* sorted(base_projects + st.session_state.custom_projects)
demo_available_projects(table, customs) ==
  sorted(unique([i \in 1 .. Len(table) |-> table[i].project]) \o customs)

\* x in list
InList(x, q) == \E i \in 1 .. Len(q) : q[i] = x

\* the project picker of a script run
DemoPage(table, customs) ==
  [kind |-> "demo", options |-> demo_available_projects(table, customs)]

\* texts typed into the Project Name input
ProjectNameInputs == {<<>>, <<" ">>, <<"A">>, <<"C">>, <<" ", "C">>, <<"A", "B">>}

\* values of the Add New Job form
DemoJobInputs ==
  {DemoJob(<<>>, n, d[1], d[2], c) :
     n \in {<<"A">>, <<" ">>}, d \in {<<D1, D2>>, <<D2, D1>>}, c \in {0, 1000}}

InitDemo ==
  /\ sheet = <<>>
  /\ header = Worksheet(REQUIRED_COLUMNS)
  /\ environ = LocalFile
  /\ InitSessions

\* a script run: the picker is rebuilt from the cached sample table and the
\* session's lists
DemoRun(s) ==
  /\ \E sample \in IF cache.valid THEN {cache.value} ELSE DemoSamples :
       /\ cache' = [valid |-> TRUE, value |-> sample]
       /\ df' = [df EXCEPT ![s] = demo_df(sample, custom_jobs[s])]
       /\ view' = DemoPage(df'[s], custom_projects[s])
  /\ lastOp' = Op(s, "view", "none", TRUE, -1, -1, NoJob, <<>>)
  /\ UNCHANGED <<sheet, header, environ, editing, confirm_delete, project_budgets,
                 completed_jobs, updating, conn, custom_projects, custom_jobs>>

\* the Add Project form is submitted
AddProject(s) ==
  /\ cache.valid
  /\ Len(custom_projects[s]) < MaxCustomProjects
  /\ \E text \in ProjectNameInputs :
       LET table == demo_df(cache.value, custom_jobs[s])
           available == demo_available_projects(table, custom_projects[s])
           new_project_name == strip(text)
           added == new_project_name # <<>> /\ ~InList(new_project_name, available)
       IN /\ custom_projects' =
               [custom_projects EXCEPT
                  ![s] = IF added THEN Append(@, new_project_name) ELSE @]
          /\ df' = [df EXCEPT ![s] = table]
          /\ view' = DemoPage(table, custom_projects'[s])
          /\ lastOp' = Op(s, "add_project", "none", added, -1, -1, NoJob,
                          IF new_project_name # <<>> /\ ~added
                          THEN <<"Project already exists!">> ELSE <<>>)
  /\ UNCHANGED <<sheet, header, environ, cache, editing, confirm_delete,
                 project_budgets, completed_jobs, updating, conn, custom_jobs>>

\* the Add New Job form is submitted on the page of the selected project
AddJobDemo(s) ==
  /\ cache.valid
  /\ Len(custom_jobs[s]) < MaxCustomJobs
  /\ LET available ==
           demo_available_projects(demo_df(cache.value, custom_jobs[s]),
                                   custom_projects[s])
     IN \E i \in 1 .. Len(available), input \in DemoJobInputs :
          LET selected_project == available[i]
              new_job == [input EXCEPT !.project = selected_project,
                                       !.name = strip(input.name)]
              added == /\ new_job.name # <<>>
                       /\ input.cost > 0
                       /\ Timestamp(input.end) >= Timestamp(input.start)
          IN /\ custom_jobs' =
                  [custom_jobs EXCEPT ![s] = IF added THEN Append(@, new_job) ELSE @]
             /\ df' = [df EXCEPT ![s] = demo_df(cache.value, custom_jobs'[s])]
             /\ view' = DemoPage(df'[s], custom_projects[s])
             /\ lastOp' = Op(s, "add_job", "none", added, -1, -1, NoJob,
                             IF new_job.name # <<>> /\ input.cost > 0 /\ ~added
                             THEN <<"End date must be on or after start date!">>
                             ELSE IF ~added
                             THEN <<"Please fill in all fields with valid values!">>
                             ELSE <<>>)
  /\ UNCHANGED <<sheet, header, environ, cache, editing, confirm_delete,
                 project_budgets, completed_jobs, updating, conn, custom_projects>>

NextDemo ==
  \/ \E s \in Users : DemoRun(s)
  \/ \E s \in Users : AddProject(s)
  \/ \E s \in Users : AddJobDemo(s)

SpecDemo == InitDemo /\ [][NextDemo]_vars

\* ------------------------------------------------------------------------
\* Properties
\* ------------------------------------------------------------------------
WriteCalls == {"append", "update", "delete"}

RECURSIVE SumSeq(_)
SumSeq(q) == IF q = <<>> THEN 0 ELSE Head(q) + SumSeq(Tail(q))

\* C1: after a script run that issued a mutating call (append, update or
\* delete), whatever the call returned, the read cache is invalidated, so
\* that the next read returns the store's contents as they are after the
\* write: no cache entry is left that differs from what the store now holds.
C1_WriteInvalidatesCache ==
  lastOp.call \in WriteCalls =>
    \/ ~cache.valid
    \/ cache.value = Fetched

\* C2: a submission of the add-job form or of the edit-job form with
\* start_date = end_date shows a validation error and makes no write call.
C2_EqualDatesNoWrite ==
  (lastOp.form \in {"add", "edit"} /\ lastOp.input.start = lastOp.input.end) =>
    (lastOp.call = "none" /\ lastOp.errors # <<>>)

\* C3: the month view holds exactly the jobs of the table with
\* start_date <= last day of the month and end_date >= first day of the
\* month, in table order; a job spanning 2024-01-15..2024-02-28 is in the
\* January 2024 and February 2024 views and in no other.
C3_MonthViewOverlap ==
  \A s \in Users :
    (view.kind = "gantt" /\ df[s].ok) =>
      LET rows == df[s].rows
          y == view.month[1]
          mo == view.month[2]
          first == Timestamp(<<y, mo, 1>>)
          last == Timestamp(<<y, mo, DaysInMonth(y, mo)>>)
          want == {i \in 1 .. Len(rows) : rows[i].start <= last /\ rows[i].end >= first}
          InView(r) == \E j \in 1 .. Len(view.jobs) : view.jobs[j] = r
      IN /\ Len(view.jobs) = Cardinality(want)
         /\ \A i \in 1 .. Len(rows) : InView(rows[i]) <=> i \in want
         /\ \A j, k \in 1 .. Len(view.jobs) :
              j < k => view.jobs[j].idx < view.jobs[k].idx
         /\ \A i \in 1 .. Len(rows) :
              (rows[i].start = Timestamp(D1) /\ rows[i].end = Timestamp(D2)) =>
                (InView(rows[i]) <=> <<y, mo>> \in {<<2024, 1>>, <<2024, 2>>})

C3_Witness ==
  /\ view.kind = "gantt"
  /\ <<view.month[1], view.month[2]>> = <<2024, 2>>
  /\ Len(view.jobs) = 2
  /\ Len(df["s1"].rows) = 3
  /\ \E j \in 1 .. Len(view.jobs) :
       view.jobs[j].start = Timestamp(D1) /\ view.jobs[j].end = Timestamp(D2)

\* C4: spend-to-date is monotonic in the window end: of two computations on
\* the same table, the one for the later month is never the smaller.
C4_SpendMonotonic ==
  [][(/\ view.kind = "spend"
      /\ view'.kind = "spend"
      /\ df' = df
      /\ Timestamp(month_start(view.month)) < Timestamp(month_start(view'.month)))
     => view'.total >= view.total]_vars

\* C5: for a project with at least one job the pie has one slice per job at
\* its cost plus, only when budget - total_job_cost > 0, a remaining-budget
\* slice of that value; the values sum to max(total, budget) when the cost
\* is within the budget and to the total cost otherwise.
C5_PieSlices ==
  \A s \in Users :
    (view.kind = "pie" /\ df[s].ok /\ ~view.empty) =>
      LET jobs == project_jobs(df[s].rows, view.project)
          n == Len(jobs)
          total == SumSeq([i \in 1 .. n |-> jobs[i].cost])
          rest == view.budget - total
      IN /\ n >= 1
         /\ Len(view.values) = n + (IF rest > 0 THEN 1 ELSE 0)
         /\ \A i \in 1 .. n : view.values[i] = jobs[i].cost
         /\ rest > 0 => view.values[n + 1] = rest
         /\ SumSeq(view.values) =
              (IF total <= view.budget THEN Max(total, view.budget) ELSE total)

C5_Witness ==
  /\ view.kind = "pie"
  /\ ~view.empty
  /\ Len(view.values) = 3
  /\ view.values[3] = view.budget - (view.values[1] + view.values[2])
  /\ Len(project_jobs(df["s1"].rows, view.project)) = 2

\* C6: for a budget > 0 the KPIs are total_spend_to_date = the sum of the
\* selected project's costs, budget_used_pct = spend / budget * 100 and
\* remaining_budget = budget - spend, negative when over budget; jobs of
\* 50000 and 75000 against 500000 give 25.0 and 375000.
C6_BudgetKpis ==
  \A s \in Users :
    (view.kind = "kpis" /\ df[s].ok /\ view.budget > 0) =>
      LET jobs == project_jobs(df[s].rows, view.project)
          costs == [i \in 1 .. Len(jobs) |-> jobs[i].cost]
          total == SumSeq(costs)
          pct == view.kpis.budget_used_pct
      IN /\ view.kpis.total_spend_to_date = total
         /\ pct.den = view.budget
         /\ pct.num = total * 100
         /\ view.kpis.remaining_budget = view.budget - total
         /\ total > view.budget => view.kpis.remaining_budget < 0
         /\ (costs \in {<<50000, 75000>>, <<75000, 50000>>} /\ view.budget = 500000) =>
              (pct.num = 25 * pct.den /\ view.kpis.remaining_budget = 375000)

C6_Witness ==
  /\ view.kind = "kpis"
  /\ view.budget = 500000
  /\ view.kpis.total_spend_to_date = 125000
  /\ view.kpis.remaining_budget = 375000
  /\ Len(project_jobs(df["s1"].rows, view.project)) = 2
  /\ Len(df["s1"].rows) = 3

\* C7: the colour of the budget-used line depends on budget_used_pct only:
\* red for pct >= 90, orange for 70 <= pct < 90, green for pct < 70; exactly
\* 90 is red, 89.9 is orange and 69.9 is green.
C7_ColorBands ==
  (view.kind = "kpis" /\ view.budget > 0) =>
    LET pct == view.kpis.budget_used_pct
    IN /\ pct.num >= 90 * pct.den => view.color = "red"
       /\ (pct.num >= 70 * pct.den /\ pct.num < 90 * pct.den) => view.color = "orange"
       /\ pct.num < 70 * pct.den => view.color = "green"
       /\ 10 * pct.num = 900 * pct.den => view.color = "red"
       /\ 10 * pct.num = 899 * pct.den => view.color = "orange"
       /\ 10 * pct.num = 699 * pct.den => view.color = "green"

C7_Witness ==
  /\ view.kind = "kpis"
  /\ view.budget = 1000
  /\ view.kpis.total_spend_to_date = 900
  /\ view.color = "red"

\* C8: the table of a successful fetch holds exactly the raw rows whose Start
\* Date, End Date and Estimated Cost all coerce to a value, in their original
\* order and with their coerced values; no other row is dropped.
C8_NormalizedRows ==
  \A s \in Users :
    df[s].ok =>
      LET rows == df[s].rows
          good == {i \in 1 .. Len(sheet) :
                     /\ ValidDate(sheet[i].start)
                     /\ ValidDate(sheet[i].end)
                     /\ sheet[i].cost.isnum}
      IN /\ Len(rows) = Cardinality(good)
         /\ \A k \in 1 .. Len(rows) :
              /\ rows[k].idx + 1 \in good
              /\ rows[k].name = sheet[rows[k].idx + 1].name
              /\ rows[k].start = Timestamp(sheet[rows[k].idx + 1].start)
              /\ rows[k].end = Timestamp(sheet[rows[k].idx + 1].end)
              /\ rows[k].cost = sheet[rows[k].idx + 1].cost.v
              /\ rows[k].project = sheet[rows[k].idx + 1].project
         /\ \A j, k \in 1 .. Len(rows) : j < k => rows[j].idx < rows[k].idx

C8_Witness ==
  /\ df["s1"].ok
  /\ Len(sheet) = 3
  /\ Len(df["s1"].rows) = 2
  /\ df["s1"].rows[1].idx = 0
  /\ df["s1"].rows[2].idx = 2
  /\ ~sheet[2].cost.isnum
  /\ ~sheet[3].dur.isnum

\* C9: in the normalized table a row whose raw Status was empty has Status
\* 'Planned' and a row whose raw Status was non-empty keeps it.
C9_StatusDefault ==
  \A s \in Users :
    df[s].ok =>
      \A k \in 1 .. Len(df[s].rows) :
        LET raw == sheet[df[s].rows[k].idx + 1].status
        IN df[s].rows[k].status = (IF raw = "" THEN "Planned" ELSE raw)

C9_Witness ==
  /\ df["s1"].ok
  /\ Len(df["s1"].rows) = 2
  /\ sheet[df["s1"].rows[1].idx + 1].status = ""
  /\ df["s1"].rows[1].status = "Planned"
  /\ df["s1"].rows[2].status = "On Hold"

DistinctNames(rows) ==
  \A i, j \in 1 .. Len(rows) : rows[i].name = rows[j].name => i = j

SixCells(row) == <<row.name, row.start, row.end, row.cost, row.dur, row.status>>

\* C10: when the job names of the loaded table are pairwise distinct and the
\* store has not changed since the load, an edit of job J changes no store
\* row but the one J was loaded from, and a confirmed delete of J removes
\* that row and no other, also when raw rows before J were dropped by the
\* normalizer.
C10_EditDeleteOwnRow ==
  [][\A s \in Users :
       (/\ lastOp'.sess = s
        /\ lastOp'.call \in {"update", "delete"}
        /\ df'[s] = Fetched
        /\ DistinctNames(df'[s].rows))
       => LET J == RowAt(df'[s], lastOp'.idx)
              n == J.idx + 1
              new == Stripped(lastOp'.input)
          IN /\ n \in 1 .. Len(sheet)
             /\ sheet[n].name = J.name
             /\ to_datetime(sheet[n].start) = J.start
             /\ lastOp'.call = "update" =>
                  /\ Len(sheet') = Len(sheet)
                  /\ \A i \in 1 .. Len(sheet) : i # n => sheet'[i] = sheet[i]
                  /\ lastOp'.ok =>
                       SixCells(sheet'[n]) =
                         <<new.name, strftime(new.start), strftime(new.end),
                           Num(new.cost), Num(new.dur), new.status>>
             /\ lastOp'.call = "delete" =>
                  IF lastOp'.ok
                  THEN /\ Len(sheet') = Len(sheet) - 1
                       /\ \A i \in 1 .. Len(sheet') :
                            sheet'[i] = sheet[IF i < n THEN i ELSE i + 1]
                  ELSE sheet' = sheet]_vars

C10_Witness ==
  /\ lastOp.call = "update"
  /\ lastOp.ok
  /\ lastOp.row = 1
  /\ Len(df["s1"].rows) = 1
  /\ df["s1"].rows[1].idx = 1
  /\ Len(sheet) = 2
  /\ sheet[1].name = <<"X">>
  /\ sheet[2].name = <<"C">>

\* C11: when several loaded rows share a job name, an edit or a delete
\* started from any of them goes to the first loaded row of that name (the
\* lowest row position): the call gets that row's label, and the store row
\* written or removed is the one at that label.
C11_FirstRowOfName ==
  [][\A s \in Users :
       (/\ lastOp'.sess = s
        /\ lastOp'.call \in {"update", "delete"})
       => LET rows == df'[s].rows
              J == RowAt(df'[s], lastOp'.idx)
              same == {rows[i].idx : i \in {j \in 1 .. Len(rows) : rows[j].name = J.name}}
              first == CHOOSE x \in same : \A y \in same : x <= y
              n == first + 1
              new == Stripped(lastOp'.input)
          IN /\ lastOp'.row = first
             /\ (lastOp'.call = "update" /\ lastOp'.ok) =>
                  /\ SixCells(sheet'[n]) =
                       <<new.name, strftime(new.start), strftime(new.end),
                         Num(new.cost), Num(new.dur), new.status>>
                  /\ \A i \in 1 .. Len(sheet) : i # n => sheet'[i] = sheet[i]
             /\ (lastOp'.call = "delete" /\ lastOp'.ok /\ n <= Len(sheet)) =>
                  /\ Len(sheet') = Len(sheet) - 1
                  /\ \A i \in 1 .. Len(sheet') :
                       sheet'[i] = sheet[IF i < n THEN i ELSE i + 1]]_vars

C11_Witness ==
  /\ lastOp.call = "update"
  /\ lastOp.ok
  /\ lastOp.idx = 1
  /\ lastOp.row = 0
  /\ Len(df["s1"].rows) = 2
  /\ df["s1"].rows[1].name = df["s1"].rows[2].name
  /\ Len(sheet) = 2
  /\ sheet[1].name = <<"C">>
  /\ sheet[2] = RowA2

\* C13: a successful append adds exactly one row at the end of the store,
\* its cells the submitted record's fields in the canonical header order,
\* Project included (a job added while project P is selected is stored with
\* Project = P); every existing row is left unchanged, and a second append
\* of the same record adds a second row.
C13_AppendCanonicalRow ==
  [][(lastOp'.call = "append" /\ lastOp'.ok)
     => LET input == Stripped(lastOp'.input)
            row == sheet'[Len(sheet')]
        IN /\ Len(sheet') = Len(sheet) + 1
           /\ \A i \in 1 .. Len(sheet) : sheet'[i] = sheet[i]
           /\ SixCells(row) =
                <<input.name, strftime(input.start), strftime(input.end),
                  Num(input.cost), Num(input.dur), input.status>>
           /\ row.project = input.project]_vars

\* C12: concurrent writes are last-write-wins: when two sessions have each
\* run an update on the same store row and both report success, the row holds
\* all six fields of the record written by the update that finished last.
C12_LastWriteWins ==
  \A s, o \in Sessions :
    (/\ s # o
     /\ updating[s].phase = "done"
     /\ updating[o].phase = "done"
     /\ updating[s].row = updating[o].row
     /\ lastOp.sess = s
     /\ lastOp.call = "update"
     /\ lastOp.ok)
    => LET last == Stripped(updating[s].job)
       IN SixCells(sheet[ActualRow(updating[s].row) - 1]) =
            <<last.name, strftime(last.start), strftime(last.end),
              Num(last.cost), Num(last.dur), last.status>>

\* a step in which session s fetched from the store (a load that missed the
\* cache, or a refresh)
Fetch(s) ==
  /\ lastOp'.sess = s
  /\ cache'.valid
  /\ \/ lastOp'.form = "refresh"
     \/ lastOp'.form = "view" /\ ~cache.valid

\* C14: when the worksheet is absent a fetch creates it with exactly one
\* row, the seven canonical column names, and returns an empty table, not a
\* failure; a fetch that finds the worksheet neither recreates it nor adds
\* another header row.
C14_CreatesWorksheetOnce ==
  [][\A s \in Users :
       Fetch(s) =>
         IF ~header.exists
         THEN /\ conn'.created =>
                   /\ header' = Worksheet(REQUIRED_COLUMNS)
                   /\ Len(header'.cols) = 7
                   /\ sheet' = <<>>
                   /\ df'[s] = Table(<<>>)
              /\ ~conn'.created => (header' = header /\ df'[s] = None)
         ELSE /\ header' = header
              /\ sheet' = sheet
              /\ ~conn'.created]_vars

C14_Witness ==
  /\ conn.created
  /\ lastOp.form = "view"
  /\ header = Worksheet(REQUIRED_COLUMNS)
  /\ sheet = <<>>
  /\ df["s1"] = Table(<<>>)
  /\ cache = [valid |-> TRUE, value |-> Table(<<>>)]

SourceState(env, n) ==
  IF n = 1 THEN (IF env.gac \in {"unset", "missing"} THEN "absent" ELSE env.gac)
  ELSE IF n = 2 THEN (IF env.secrets \in {"nofile", "absent"} THEN "absent" ELSE env.secrets)
  ELSE IF n = 3 THEN env.file
  ELSE (IF env.json = "unset" THEN "absent" ELSE env.json)

\* the first source, in the order 1..4, that is there; 0 when none is
FirstAvailable(env) ==
  IF \A n \in 1 .. 4 : SourceState(env, n) = "absent" THEN 0
  ELSE CHOOSE n \in 1 .. 4 :
         /\ SourceState(env, n) # "absent"
         /\ \A m \in 1 .. (n - 1) : SourceState(env, m) = "absent"

\* C16: after a fetch, the credentials are those of the first source that is
\* there in the order GOOGLE_APPLICATION_CREDENTIALS path, secrets entry,
\* credentials.json, GOOGLE_CREDENTIALS; a later source is used only when
\* every earlier one is absent; with all four absent there are no
\* credentials, the load has failed (the run stops at the failed-load
\* message) and no exception escaped.
C16_CredentialOrder ==
  cache.valid =>
    LET n == FirstAvailable(environ)
    IN /\ conn.credentials.found => conn.credentials.source = n
       /\ (n # 0 /\ SourceState(environ, n) = "ok") => conn.credentials = Credentials(n)
       /\ n = 0 => (/\ ~conn.credentials.found
                    /\ ~conn.raised
                    /\ df["s1"] = None)

\* C17: in every adapter operation (load, add, update, delete) an exception
\* of the credential resolution or of the store is caught inside the
\* operation: no exception reaches the script run, the load returns None and
\* add, update and delete return False; the failed operation is not run
\* again (a failed append or delete leaves the rows as they were).
C17_ExceptionsCaught ==
  [][/\ ~conn'.raised
     /\ \A s \in Users :
          (Fetch(s) /\ lastOp' # lastOp /\ ~conn'.credentials.found)
          => (df'[s] = None /\ sheet' = sheet)
     /\ (lastOp'.call \in WriteCalls /\ ~conn'.credentials.found)
        => (~lastOp'.ok /\ sheet' = sheet)
     /\ (lastOp'.call \in {"append", "delete"} /\ ~lastOp'.ok)
        => sheet' = sheet]_vars

C17_Witness ==
  /\ lastOp.call = "update"
  /\ ~lastOp.ok
  /\ ~conn.credentials.found
  /\ ~conn.raised
  /\ environ = NoSource
  /\ sheet = <<RowA>>

\* the rules a submitted job violates
ViolatedRules(job) ==
  (IF strip(job.name) = <<>> THEN {"name blank"} ELSE {})
  \cup (IF Timestamp(job.end) > Timestamp(job.start) THEN {}
        ELSE {"end date not after start date"})
  \cup (IF job.cost < 0 THEN {"cost < 0"} ELSE {})
  \cup (IF job.dur <= 0 THEN {"duration <= 0"} ELSE {})

\* C18: a job submission (add or edit) shows exactly one message per violated
\* rule among name blank, end date not after start date, cost < 0 and
\* duration <= 0; it makes no write when a rule is violated and one write
\* when none is, so a job with a name, end after start, cost 0 and duration
\* >= 1 is written.
C18_OneMessagePerRule ==
  [][(lastOp' # lastOp /\ lastOp'.form \in {"add", "edit"})
     => LET violated == ViolatedRules(lastOp'.input)
        IN /\ Len(lastOp'.errors) = Cardinality(violated)
           /\ violated # {} => (lastOp'.call = "none" /\ sheet' = sheet)
           /\ violated = {} => lastOp'.call \in {"append", "update"}]_vars

\* C19: a delete call reaches the store for a job only after Delete was
\* clicked on that job and then "Yes, Delete" while its confirm flag was
\* set: the call is made for a flagged job, and never for a job that the
\* preceding run has only just added (nobody can have clicked Delete on it);
\* Cancel clears the flag and makes no store call; Delete alone deletes
\* nothing.
C19_DeleteNeedsClickAndConfirm ==
  [][\A s \in Users :
       /\ (lastOp'.sess = s /\ lastOp'.call = "delete" /\ lastOp' # lastOp)
          => /\ lastOp'.idx \in confirm_delete[s]
             /\ ~(/\ lastOp.form = "add" /\ lastOp.call = "append" /\ lastOp.ok
                  /\ lastOp'.idx = Len(sheet) - 1)
       /\ (lastOp'.sess = s /\ lastOp'.form = "delete_cancel")
          => (/\ lastOp'.idx \notin confirm_delete'[s]
              /\ lastOp'.call = "none"
              /\ sheet' = sheet)
       /\ (lastOp'.sess = s /\ lastOp'.form = "delete_click")
          => (lastOp'.call = "none" /\ sheet' = sheet)]_vars

\* C20: the data rows of the store change only in a run that submits the
\* add-job form, submits the edit form or confirms a delete; a load, a
\* refresh, a project selection, a budget set, a completion toggle, a search
\* or filter input and a cancel leave every data row as it was.
C20_RowsChangeOnlyByWrites ==
  [][/\ sheet' # sheet
        => (/\ lastOp'.form \in {"add", "edit", "delete"}
            /\ lastOp'.call \in WriteCalls)
     /\ (lastOp'.form \in {"view", "refresh", "set_budget", "toggle",
                           "edit_click", "edit_cancel", "delete_click",
                           "delete_cancel"})
        => sheet' = sheet]_vars

C20_Witness ==
  /\ lastOp.form = "toggle"
  /\ completed_jobs["s1"] # {}
  /\ project_budgets["s1"] # {}
  /\ sheet = <<RowA>>

\* C21: for the selected project, jobs_complete is the number of the
\* project's rows whose key (job name and start date) is in completed_jobs,
\* jobs_in_progress is the project's row count minus jobs_complete; both are
\* non-negative and sum to the row count, whatever the rows' Status.
C21_CompletionCounts ==
  \A s \in Users :
    (view.kind = "page" /\ df[s].ok) =>
      LET rows == df[s].rows
          mine == {i \in 1 .. Len(rows) : rows[i].project = view.project}
          done == {i \in mine : <<rows[i].name, rows[i].start>> \in completed_jobs[s]}
      IN /\ view.counts.jobs_complete = Cardinality(done)
         /\ view.counts.jobs_in_progress = Cardinality(mine) - Cardinality(done)
         /\ view.counts.jobs_complete >= 0
         /\ view.counts.jobs_in_progress >= 0
         /\ view.counts.jobs_complete + view.counts.jobs_in_progress = Cardinality(mine)

C21_Witness ==
  /\ view.kind = "page"
  /\ view.project = "P"
  /\ view.counts.jobs_complete = 1
  /\ view.counts.jobs_in_progress = 1
  /\ \E i \in 1 .. Len(df["s1"].rows) :
       /\ df["s1"].rows[i].project = "P"
       /\ df["s1"].rows[i].status = "Completed"
       /\ <<df["s1"].rows[i].name, df["s1"].rows[i].start>> \notin completed_jobs["s1"]

\* the budgets set for project p in a session's project_budgets
SetFor(budgets, p) == {b[2] : b \in {c \in budgets : c[1] = p}}

\* C22: the budget of the KPIs and of the pie chart of project P is the
\* value most recently Set while P was selected, or 500000 when no Set was
\* done for P; a Set for P leaves the budget of every other project as it
\* was and writes nothing to the store.
C22_BudgetPerProject ==
  [][\A s \in Users :
       /\ lastOp'.form = "set_budget"
          => LET p == lastOp'.input.project
             IN /\ view'.project = p
                /\ view'.budget = lastOp'.input.budget
                /\ SetFor(project_budgets'[s], p) = {lastOp'.input.budget}
                /\ \A q \in Projects \ {p} :
                     SetFor(project_budgets'[s], q) = SetFor(project_budgets[s], q)
       /\ lastOp'.form # "set_budget" => project_budgets'[s] = project_budgets[s]
       /\ view'.kind = "page"
          => LET set == SetFor(project_budgets'[s], view'.project)
                 spend == SumCost(project_jobs(df'[s].rows, view'.project))
             IN /\ set = {} => view'.budget = 500000
                /\ set # {} => set = {view'.budget}
                /\ view'.kpis.remaining_budget = view'.budget - spend
                /\ view'.kpis.budget_used_pct = Pct(spend, view'.budget)
                /\ view'.pie = pie_values(df'[s].rows, view'.project, view'.budget)
       /\ sheet' = sheet
       /\ header' = header]_vars

C22_Witness ==
  /\ lastOp.form = "set_budget"
  /\ view.kind = "page"
  /\ view.project = "P"
  /\ view.budget = 125000
  /\ project_budgets["s1"] = {<<"P", 125000>>, <<"Q", 250000>>}
  /\ view.kpis.remaining_budget = 124000

\* C23: the read cache is shared by the sessions: while the entry is there,
\* a read by any session returns the cached table and leaves the store
\* alone, even when the store has changed; after an explicit refresh by any
\* session the cache holds the store's current contents, which is what
\* every session's next read returns.
C23_SharedCache ==
  [][\A s \in Sessions :
       /\ (lastOp'.sess = s /\ lastOp'.form = "view" /\ cache.valid /\ cache'.valid)
          => (df'[s] = cache.value /\ cache' = cache /\ sheet' = sheet)
       /\ (lastOp'.sess = s /\ lastOp'.form = "refresh" /\ cache'.valid)
          => cache'.value = Fetched'
       /\ (lastOp.form = "refresh" /\ cache.valid
             /\ lastOp'.sess = s /\ lastOp'.form = "view")
          => df'[s] = Fetched]_vars

\* C28: the read cache holds successfully loaded tables only: after a fetch
\* that ended in None the cache has no entry, so that the session's next
\* read contacts the store again and never returns the earlier None from
\* the cache.
C28_FailuresNotCached ==
  [][/\ cache'.valid => cache'.value.ok
     /\ \A s \in Users :
          (lastOp'.sess = s /\ lastOp'.form = "view" /\ cache.valid /\ cache'.valid)
          => df'[s].ok]_vars

\* C24: the period aggregation of a project has one entry per distinct start
\* date of the project's jobs, in ascending date order; the daily value is
\* the sum of the costs of the jobs starting that day, the cumulative value
\* the sum of the daily values up to and including that date, and the last
\* cumulative value is the project's total spend.
C24_DailySpend ==
  \A s \in Users :
    (view.kind = "page" /\ df[s].ok) =>
      LET rows == df[s].rows
          mine == {i \in 1 .. Len(rows) : rows[i].project = view.project}
          dates == {rows[i].start : i \in mine}
          d == view.daily
      IN /\ Len(d) = Cardinality(dates)
         /\ \A k \in 1 .. Len(d) : d[k].date \in dates
         /\ \A j, k \in 1 .. Len(d) : j < k => d[j].date < d[k].date
         /\ \A k \in 1 .. Len(d) :
              /\ d[k].cost =
                   SumSeq([i \in 1 .. Len(rows) |->
                             IF i \in mine /\ rows[i].start = d[k].date
                             THEN rows[i].cost ELSE 0])
              /\ d[k].cumulative = SumSeq([j \in 1 .. k |-> d[j].cost])
         /\ d # <<>> => d[Len(d)].cumulative = view.kpis.total_spend_to_date

C24_Witness ==
  /\ view.kind = "page"
  /\ view.project = "Q"
  /\ Len(view.daily) = 2
  /\ view.daily[1].cost = 4000
  /\ view.daily[2].cumulative = 7000
  /\ df["s1"].rows[1].start > df["s1"].rows[2].start

\* C25: for every job of a month view the bar runs from
\* max(start_date, month_start) to min(end_date, month_end), lies within the
\* month and has a non-negative length; the job's dates in the table are
\* those it had.
C25_BarsClipped ==
  \A s \in Users :
    (view.kind = "gantt" /\ df[s].ok) =>
      LET y == view.month[1]
          mo == view.month[2]
          first == Timestamp(<<y, mo, 1>>)
          last == Timestamp(<<y, mo, DaysInMonth(y, mo)>>)
      IN /\ Len(view.bars) = Len(view.jobs)
         /\ \A j \in 1 .. Len(view.jobs) :
              LET job == view.jobs[j]
                  bar == view.bars[j]
              IN /\ bar.base = (IF job.start >= first THEN job.start ELSE first)
                 /\ bar.base + bar.x = (IF job.end <= last THEN job.end ELSE last)
                 /\ first <= bar.base
                 /\ bar.base + bar.x <= last
                 /\ bar.x >= 0
                 /\ \E i \in 1 .. Len(df[s].rows) : df[s].rows[i] = job

\* C26: update_job_in_sheet is all-or-nothing on the store row: when it
\* returns True the six fields of the target row are those of the new
\* record, and when it returns False the target row is as it was before
\* the call.
C26_UpdateAllOrNothing ==
  [][lastOp'.call = "update"
     => LET n == ActualRow(lastOp'.row) - 1
            new == Stripped(lastOp'.input)
        IN /\ lastOp'.ok
              => /\ n <= Len(sheet')
                 /\ SixCells(sheet'[n]) =
                      <<new.name, strftime(new.start), strftime(new.end),
                        Num(new.cost), Num(new.dur), new.status>>
           /\ ~lastOp'.ok
              => /\ Len(sheet') = Len(sheet)
                 /\ n <= Len(sheet) => sheet'[n] = sheet[n]]_vars

\* C27: an update changes only the first six cells of the target row: the
\* row's Project cell, the header row, the number of rows and every other
\* row are as before, so the edited job stays in its project.
C27_UpdateFrame ==
  [][lastOp'.call = "update"
     => LET n == ActualRow(lastOp'.row) - 1
        IN /\ n \in 1 .. Len(sheet)
           /\ Len(sheet') = Len(sheet)
           /\ header' = header
           /\ sheet'[n].project = sheet[n].project
           /\ \A i \in 1 .. Len(sheet) : i # n => sheet'[i] = sheet[i]]_vars

C27_Witness ==
  /\ lastOp.call = "update"
  /\ lastOp.ok
  /\ lastOp.row = 0
  /\ Len(sheet) = 2
  /\ sheet[1].name = <<"C">>
  /\ sheet[1].status = "Completed"
  /\ sheet[1].project = "P"
  /\ sheet[2].project = ""

\* C29: ticking or unticking the completion checkbox of one job changes the
\* completion status (membership of its key in the session's completed_jobs)
\* of that job only: the status of every other job of the table, in the same
\* or in any other project, is as before.
C29_ToggleOneJob ==
  [][lastOp'.form = "toggle"
     => \A i \in 1 .. Len(df[lastOp'.sess].rows) :
          LET row == df[lastOp'.sess].rows[i]
          IN row.idx # lastOp'.idx
               => (job_key(row) \in completed_jobs'[lastOp'.sess])
                    = (job_key(row) \in completed_jobs[lastOp'.sess])]_vars

\* C30: in the demo dashboard, after any sequence of Add Project and Add
\* Job actions, the option list of the project picker holds each project
\* name at most once and is sorted ascending.
C30_PickerUniqueSorted ==
  view.kind = "demo" =>
    LET options == view.options
    IN /\ \A i, j \in 1 .. Len(options) : options[i] = options[j] => i = j
       /\ \A i \in 1 .. Len(options) - 1 : StrLeq(options[i], options[i + 1])

====
